---- MODULE Spec2Model ----
(***************************************************************************)
(* Schema-driven HL7 codec: tokenizer (parseMessage), decode engine        *)
(* (UnmarshalWithSchema) and encode engine (MarshalWithSchemaOptions).     *)
(* Text is a sequence of one-character strings; Go maps are functions.     *)
(***************************************************************************)
EXTENDS Integers, Sequences, FiniteSets, TLC

\* ------------------------------------------------------------------ bounds
MaxTextLen == 2
MaxLines == 2

\* ------------------------------------------------------------ text helpers
LF == "\n"
CR == "\r"

RECURSIVE Join(_, _)
Join(parts, sep) ==
  IF parts = <<>> THEN <<>>
  ELSE IF Len(parts) = 1 THEN parts[1]
  ELSE parts[1] \o sep \o Join(Tail(parts), sep)

RECURSIVE SplitAcc(_, _, _)
SplitAcc(s, sep, cur) ==
  IF s = <<>> THEN <<cur>>
  ELSE IF Head(s) = sep THEN <<cur>> \o SplitAcc(Tail(s), sep, <<>>)
  ELSE SplitAcc(Tail(s), sep, Append(cur, Head(s)))

Split(s, sep) == SplitAcc(s, sep, <<>>)

HasPrefix(s, p) == Len(s) >= Len(p) /\ SubSeq(s, 1, Len(p)) = p

MSH == <<"M", "S", "H">>

RECURSIVE NormalizeLineEndings(_)
NormalizeLineEndings(s) ==
  IF s = <<>> THEN <<>>
  ELSE IF Head(s) = CR /\ Len(s) >= 2 /\ s[2] = LF
       THEN <<LF>> \o NormalizeLineEndings(Tail(Tail(s)))
  ELSE IF Head(s) = CR THEN <<LF>> \o NormalizeLineEndings(Tail(s))
  ELSE <<Head(s)>> \o NormalizeLineEndings(Tail(s))

ScanLines(s) ==
  LET ls == Split(s, LF)
  IN IF ls[Len(ls)] = <<>> THEN SubSeq(ls, 1, Len(ls) - 1) ELSE ls

\* ---------------------------------------------------------------- tokenizer
DefaultFieldSeparator == "|"
DefaultEncodingCharacters == <<"^", "~", "\\", "&">>

segmentLine(name, fields, fs, ec) ==
  [name |-> name, fields |-> fields, fieldSeparator |-> fs, encodingCharacters |-> ec]

NoError == [kind |-> "none"]
ErrSegmentInvalid == [kind |-> "ErrSegmentInvalid"]

\* variant: a line whose first token is empty is passed over
RECURSIVE parseLinesSkipsInvalid(_, _, _, _)
parseLinesSkipsInvalid(ls, fs, ec, acc) ==
  IF ls = <<>> THEN [lines |-> acc, err |-> NoError]
  ELSE
    LET line == Head(ls)
        fs2 == IF HasPrefix(line, MSH) /\ Len(line) > 3 THEN line[4] ELSE fs
        parts == Split(line, fs2)
        ec2 == IF HasPrefix(parts[1], MSH) /\ Len(parts) > 1 THEN parts[2] ELSE ec
    IN IF parts[1] = <<>>
       THEN parseLinesSkipsInvalid(Tail(ls), fs2, ec2, acc)
       ELSE parseLinesSkipsInvalid(Tail(ls), fs2, ec2,
                                   Append(acc, segmentLine(parts[1], parts, fs2, ec2)))

\* variant: the separators of a header hold for the header line only
RECURSIVE parseLinesForgetsHeader(_, _, _, _)
parseLinesForgetsHeader(ls, fs, ec, acc) ==
  IF ls = <<>> THEN [lines |-> acc, err |-> NoError]
  ELSE
    LET line == Head(ls)
        fs2 == IF HasPrefix(line, MSH) /\ Len(line) > 3 THEN line[4] ELSE fs
        parts == Split(line, fs2)
        ec2 == IF HasPrefix(parts[1], MSH) /\ Len(parts) > 1 THEN parts[2] ELSE ec
    IN IF parts[1] = <<>>
       THEN [lines |-> <<>>, err |-> ErrSegmentInvalid]
       ELSE parseLinesForgetsHeader(Tail(ls), fs, ec,
                                    Append(acc, segmentLine(parts[1], parts, fs2, ec2)))

RECURSIVE parseLines(_, _, _, _)
parseLines(ls, fs, ec, acc) ==
  IF ls = <<>> THEN [lines |-> acc, err |-> NoError]
  ELSE
    LET line == Head(ls)
        fs2 == IF HasPrefix(line, MSH) /\ Len(line) > 3 THEN line[4] ELSE fs
        parts == Split(line, fs2)
        ec2 == IF HasPrefix(parts[1], MSH) /\ Len(parts) > 1 THEN parts[2] ELSE ec
    IN IF parts[1] = <<>>
       THEN [lines |-> <<>>, err |-> ErrSegmentInvalid]
       ELSE parseLines(Tail(ls), fs2, ec2,
                       Append(acc, segmentLine(parts[1], parts, fs2, ec2)))

parseMessage(d) ==
  parseLines(ScanLines(NormalizeLineEndings(d)),
             DefaultFieldSeparator, DefaultEncodingCharacters, <<>>)

\* ------------------------------------------------------------------- schema
\* FieldSchema{Index, Type, Components, Items}; a nil Items pointer is NoItems.
NoItems == [Index |-> 0, Type |-> "none", Components |-> <<>>]
NoComponents == <<>>

Leaf(i, t) == [Index |-> i, Type |-> t, Components |-> NoComponents, Items |-> NoItems]
Obj(i, comps) == [Index |-> i, Type |-> "object", Components |-> comps, Items |-> NoItems]
Arr(i, items) == [Index |-> i, Type |-> "array", Components |-> NoComponents, Items |-> items]
ItemLeaf(t) == [Index |-> 0, Type |-> t, Components |-> NoComponents]
ItemObj(comps) == [Index |-> 0, Type |-> "object", Components |-> comps]

\* ------------------------------------------------------------- value tree
\* Go's `any`: a tagged value.  nil is VNil.
VNil == [k |-> "nil"]
VStr(t) == [k |-> "string", s |-> t]
VInt(n) == [k |-> "int64", n |-> n]
VFloat(neg, ip, fr) == [k |-> "float64", neg |-> neg, ip |-> ip, fr |-> fr]
VBool(b) == [k |-> "bool", b |-> b]
\* a time.Time: the wall clock, the nanoseconds and the zone offset in minutes
VTime(y, mo, d, h, mi, sec) ==
  [k |-> "time", y |-> y, mo |-> mo, d |-> d, h |-> h, mi |-> mi, sec |-> sec,
   nsec |-> 0, off |-> 0]
VMap(m) == [k |-> "map", m |-> m]
VSlice(a) == [k |-> "slice", a |-> a]

\* ------------------------------------------------------------- conversions
Digits == {"0", "1", "2", "3", "4", "5", "6", "7", "8", "9"}
DigitVal(c) ==
  CASE c = "0" -> 0 [] c = "1" -> 1 [] c = "2" -> 2 [] c = "3" -> 3 [] c = "4" -> 4
    [] c = "5" -> 5 [] c = "6" -> 6 [] c = "7" -> 7 [] c = "8" -> 8 [] c = "9" -> 9
DigitChar(n) == <<"0", "1", "2", "3", "4", "5", "6", "7", "8", "9">>[n + 1]

AllDigits(s) == \A i \in 1..Len(s) : s[i] \in Digits

RECURSIVE DigitsToNat(_, _)
DigitsToNat(s, acc) ==
  IF s = <<>> THEN acc ELSE DigitsToNat(Tail(s), acc * 10 + DigitVal(Head(s)))

RECURSIVE NatToDigits(_)
NatToDigits(n) ==
  IF n < 10 THEN <<DigitChar(n)>> ELSE NatToDigits(n \div 10) \o <<DigitChar(n % 10)>>

\* strconv.ParseInt(raw, 10, 64): optional sign, then one or more digits.
\* (Digit strings in the model are far below the 19 digits of the int64 range.)
ParseInt(raw) ==
  LET signed == raw # <<>> /\ Head(raw) \in {"+", "-"}
      body == IF signed THEN Tail(raw) ELSE raw
  IN IF body = <<>> \/ ~AllDigits(body) THEN [ok |-> FALSE, v |-> VInt(0)]
     ELSE [ok |-> TRUE,
           v |-> VInt(IF signed /\ Head(raw) = "-" THEN 0 - DigitsToNat(body, 0)
                      ELSE DigitsToNat(body, 0))]

\* strconv.FormatInt(v, 10)
FormatInt(n) == IF n < 0 THEN <<"-">> \o NatToDigits(0 - n) ELSE NatToDigits(n)

RECURSIVE TrimTrailingZeros(_)
TrimTrailingZeros(s) ==
  IF s # <<>> /\ s[Len(s)] = "0" THEN TrimTrailingZeros(SubSeq(s, 1, Len(s) - 1)) ELSE s

\* strconv.ParseFloat(raw, 64) on plain decimal text: optional sign, digits
\* with at most one '.', at least one digit.  The value is kept as sign,
\* integer part and fraction digits without trailing zeros.
\* the value of the digits ip before and fr after the decimal point
decimal(neg, ip, fr) ==
  IF ~AllDigits(ip) \/ ~AllDigits(fr) \/ (ip = <<>> /\ fr = <<>>)
  THEN [ok |-> FALSE, v |-> VNil]
  ELSE [ok |-> TRUE, v |-> VFloat(neg, DigitsToNat(ip, 0), TrimTrailingZeros(fr))]

\* ps: the text split at '.'
decimalParts(neg, ps) ==
  IF Len(ps) > 2 THEN [ok |-> FALSE, v |-> VNil]
  ELSE decimal(neg, ps[1], IF Len(ps) = 2 THEN ps[2] ELSE <<>>)

ParseFloat(raw) ==
  LET signed == raw # <<>> /\ Head(raw) \in {"+", "-"}
  IN decimalParts(signed /\ Head(raw) = "-", Split(IF signed THEN Tail(raw) ELSE raw, "."))

\* strconv.FormatFloat(v, 'f', -1, 64)
FormatFloat(v) ==
  (IF v.neg THEN <<"-">> ELSE <<>>) \o NatToDigits(v.ip)
     \o (IF v.fr = <<>> THEN <<>> ELSE <<".">> \o v.fr)

\* strings.ToUpper on the letters the model uses
ToUpperChar(c) ==
  CASE c = "a" -> "A" [] c = "y" -> "Y" [] c = "n" -> "N" [] c = "t" -> "T"
    [] c = "r" -> "R" [] c = "u" -> "U" [] c = "e" -> "E" [] c = "f" -> "F"
    [] c = "l" -> "L" [] c = "s" -> "S" [] OTHER -> c
ToUpper(s) == [i \in 1..Len(s) |-> ToUpperChar(s[i])]

\* ---------------------------------------------------------------- timestamp
IsLeap(y) == (y % 4 = 0 /\ y % 100 # 0) \/ y % 400 = 0
DaysIn(mo, y) ==
  IF mo = 2 THEN (IF IsLeap(y) THEN 29 ELSE 28)
  ELSE IF mo \in {4, 6, 9, 11} THEN 30 ELSE 31

Num(s, from, to) == DigitsToNat(SubSeq(s, from, to), 0)

\* timestampLayouts, in the order of the source: the number of digits of the
\* date and clock part, the digits of a ".0000" element (0 when the layout
\* has none) and the zone element ("-0700" is a numeric zone for time.Parse,
\* "+0700" is literal text)
Layout(digits, frac, zone) == [digits |-> digits, frac |-> frac, zone |-> zone]

timestampLayouts ==
  <<Layout(14, 4, "numeric"), Layout(14, 4, "literal"), Layout(14, 4, "none"),
    Layout(14, 0, "numeric"), Layout(14, 0, "literal"), Layout(14, 0, "none"),
    Layout(12, 0, "none"), Layout(10, 0, "none"), Layout(8, 0, "none"),
    Layout(6, 0, "none"), Layout(4, 0, "none")>>

NotParsed == [ok |-> FALSE, v |-> VNil]

\* time.Parse rejects a field out of range
validDate(t) ==
  IF t.mo < 1 \/ t.mo > 12 \/ t.d < 1 \/ t.d > DaysIn(t.mo, t.y)
       \/ t.h > 23 \/ t.mi > 59 \/ t.sec > 59
  THEN NotParsed
  ELSE [ok |-> TRUE, v |-> t]

\* the characters the date and clock elements take: every element has two
\* digits (the year four), except that the hour element "15" takes one digit
\* when no digit follows it, which can only happen where it is the last one
headLen(s, layout) ==
  IF layout.digits = 10 /\ ~(Len(s) >= 10 /\ s[10] \in Digits) THEN 9 ELSE layout.digits

dateOf(ds, n) ==
  VTime(Num(ds, 1, 4),
        IF n >= 6 THEN Num(ds, 5, 6) ELSE 1,
        IF n >= 8 THEN Num(ds, 7, 8) ELSE 1,
        IF n >= 10 THEN Num(ds, 9, IF Len(ds) = 9 THEN 9 ELSE 10) ELSE 0,
        IF n >= 12 THEN Num(ds, 11, 12) ELSE 0,
        IF n >= 14 THEN Num(ds, 13, 14) ELSE 0)

\* the number of digits s holds from index i on
RECURSIVE DigitRun(_, _)
DigitRun(s, i) == IF i <= Len(s) /\ s[i] \in Digits THEN 1 + DigitRun(s, i + 1) ELSE 0

\* parseNanoseconds on the digits after the point: at most nine count
Nanos(ds) ==
  DigitsToNat([i \in 1..9 |-> IF i <= Len(ds) THEN ds[i] ELSE "0"], 0)

Tail0(s, n) == SubSeq(s, n + 1, Len(s))

\* the fraction after the seconds: a ".0000" element takes a point and
\* exactly that many digits; without one, time.Parse still takes a point and
\* all the digits that follow the seconds.  (Texts in the model have digits
\* after a point and no comma.)
takeFraction(rest, layout) ==
  IF layout.frac > 0
  THEN IF Len(rest) >= 1 + layout.frac /\ rest[1] = "."
            /\ AllDigits(SubSeq(rest, 2, 1 + layout.frac))
       THEN [ok |-> TRUE, nsec |-> Nanos(SubSeq(rest, 2, 1 + layout.frac)),
             rest |-> Tail0(rest, 1 + layout.frac)]
       ELSE [ok |-> FALSE, nsec |-> 0, rest |-> rest]
  ELSE IF layout.digits = 14 /\ Len(rest) >= 2 /\ rest[1] = "." /\ rest[2] \in Digits
       THEN [ok |-> TRUE, nsec |-> Nanos(SubSeq(rest, 2, 1 + DigitRun(rest, 2))),
             rest |-> Tail0(rest, 1 + DigitRun(rest, 2))]
       ELSE [ok |-> TRUE, nsec |-> 0, rest |-> rest]

\* the zone element on what the fraction f left: a numeric zone takes a sign
\* and four digits, the literal text has to be there as written.  (Offsets in
\* the model are below 24:00.)
takeZone(f, layout) ==
  IF ~f.ok THEN [ok |-> FALSE, nsec |-> 0, off |-> 0, rest |-> f.rest]
  ELSE IF layout.zone = "numeric"
  THEN IF Len(f.rest) >= 5 /\ f.rest[1] \in {"+", "-"} /\ AllDigits(SubSeq(f.rest, 2, 5))
       THEN [ok |-> TRUE, nsec |-> f.nsec,
             off |-> (IF f.rest[1] = "-" THEN -1 ELSE 1)
                       * (Num(f.rest, 2, 3) * 60 + Num(f.rest, 4, 5)),
             rest |-> Tail0(f.rest, 5)]
       ELSE [ok |-> FALSE, nsec |-> 0, off |-> 0, rest |-> f.rest]
  ELSE IF layout.zone = "literal"
  THEN [ok |-> HasPrefix(f.rest, <<"+", "0", "7", "0", "0">>), nsec |-> f.nsec, off |-> 0,
        rest |-> Tail0(f.rest, 5)]
  ELSE [ok |-> TRUE, nsec |-> f.nsec, off |-> 0, rest |-> f.rest]

\* the end of time.Parse: nothing may be left of the text
parsedTail(t, z) ==
  IF ~z.ok \/ z.rest # <<>> THEN NotParsed
  ELSE validDate([t EXCEPT !.nsec = z.nsec, !.off = z.off])

\* time.Parse(layout, s) for a layout of timestampLayouts
parseLayout(s, layout) ==
  IF Len(s) < headLen(s, layout) \/ ~AllDigits(SubSeq(s, 1, headLen(s, layout)))
  THEN NotParsed
  ELSE parsedTail(dateOf(SubSeq(s, 1, headLen(s, layout)), layout.digits),
                  takeZone(takeFraction(Tail0(s, headLen(s, layout)), layout), layout))

ZeroTime == VTime(1, 1, 1, 0, 0, 0)

\* time.Time.IsZero: the instant is January 1 of year 1, 00:00:00 UTC
IsZero(t) ==
  /\ t.nsec = 0 /\ t.sec = 0
  /\ \/ t.y = 1 /\ t.mo = 1 /\ t.d = 1 /\ t.h * 60 + t.mi = t.off
     \/ t.y = 0 /\ t.mo = 12 /\ t.d = 31 /\ t.h * 60 + t.mi - 1440 = t.off

\* variant: the last layout that parses is taken
firstLayoutTakesLast(s, hits) ==
  IF hits = {} THEN NotParsed
  ELSE parseLayout(s, timestampLayouts[CHOOSE i \in hits : \A j \in hits : i >= j])

\* the loop over the layouts: the first that parses, an error when none does
firstLayout(s, hits) ==
  IF hits = {} THEN NotParsed
  ELSE parseLayout(s, timestampLayouts[CHOOSE i \in hits : \A j \in hits : i <= j])

\* (*Timestamp).Unmarshal
TimestampUnmarshal(s) ==
  IF s = <<>> THEN [ok |-> TRUE, v |-> ZeroTime]
  ELSE firstLayout(s, {i \in 1..Len(timestampLayouts) : parseLayout(s, timestampLayouts[i]).ok})

Pad(n, w) ==
  LET ds == NatToDigits(n)
  IN [i \in 1..(w - Len(ds)) |-> "0"] \o ds

\* time.Time.Format("20060102150405")
FormatTime(t) ==
  Pad(t.y, 4) \o Pad(t.mo, 2) \o Pad(t.d, 2) \o Pad(t.h, 2) \o Pad(t.mi, 2) \o Pad(t.sec, 2)


\* ------------------------------------------------------------ decode engine
FieldError(segName, fieldIdx, compIdx, raw, cause) ==
  [kind |-> "FieldError", Segment |-> segName, Field |-> fieldIdx,
   Component |-> compIdx, Value |-> raw, Err |-> cause]

\* An outcome is the set of errors the call may return (empty when it
\* succeeds) and the value it returns on success.  More than one error is
\* possible where the code ranges over a map and returns at the first failure.
Ok(v) == [errs |-> {}, val |-> v]
Fail(es) == [errs |-> es, val |-> VNil]

\* the outcome of a conversion r = [ok, v]: its value, or a FieldError
coerced(segName, fieldIdx, compIdx, raw, r, cause) ==
  IF r.ok THEN Ok(r.v) ELSE Fail({FieldError(segName, fieldIdx, compIdx, raw, cause)})

\* variant: the initials T and F are accepted too
parseBoolAcceptsInitials(u) ==
  IF u \in {<<"Y">>, <<"T", "R", "U", "E">>, <<"1">>, <<"T">>}
  THEN [ok |-> TRUE, v |-> VBool(TRUE)]
  ELSE IF u \in {<<"N">>, <<"F", "A", "L", "S", "E">>, <<"0">>, <<"F">>}
       THEN [ok |-> TRUE, v |-> VBool(FALSE)]
  ELSE [ok |-> FALSE, v |-> VNil]

\* strings.ToUpper(raw) against the accepted spellings
parseBool(u) ==
  IF u \in {<<"Y">>, <<"T", "R", "U", "E">>, <<"1">>} THEN [ok |-> TRUE, v |-> VBool(TRUE)]
  ELSE IF u \in {<<"N">>, <<"F", "A", "L", "S", "E">>, <<"0">>}
       THEN [ok |-> TRUE, v |-> VBool(FALSE)]
  ELSE [ok |-> FALSE, v |-> VNil]

\* variant: an int that does not parse becomes 0 instead of an error
coerceValueZeroOnFailure(segName, fieldIdx, compIdx, raw, typ) ==
  CASE typ = "string" -> Ok(VStr(raw))
    [] typ = "int" -> Ok(ParseInt(raw).v)
    [] typ = "float" ->
         coerced(segName, fieldIdx, compIdx, raw, ParseFloat(raw), "ErrInvalidFloatValue")
    [] typ = "bool" ->
         coerced(segName, fieldIdx, compIdx, raw, parseBool(ToUpper(raw)),
                 "ErrInvalidBooleanValue")
    [] typ = "timestamp" ->
         coerced(segName, fieldIdx, compIdx, raw, TimestampUnmarshal(raw),
                 "unrecognized timestamp format")
    [] OTHER -> Ok(VStr(raw))

coerceValue(segName, fieldIdx, compIdx, raw, typ) ==
  CASE typ = "string" -> Ok(VStr(raw))
    [] typ = "int" ->
         coerced(segName, fieldIdx, compIdx, raw, ParseInt(raw), "ErrInvalidIntValue")
    [] typ = "float" ->
         coerced(segName, fieldIdx, compIdx, raw, ParseFloat(raw), "ErrInvalidFloatValue")
    [] typ = "bool" ->
         coerced(segName, fieldIdx, compIdx, raw, parseBool(ToUpper(raw)),
                 "ErrInvalidBooleanValue")
    [] typ = "timestamp" ->
         coerced(segName, fieldIdx, compIdx, raw, TimestampUnmarshal(raw),
                 "unrecognized timestamp format")
    [] OTHER -> Ok(VStr(raw))

\* the errors among the outcomes of a range loop over a map: the loop
\* returns at the first failure it visits, which may be any of them
errorsOf(outs) == UNION {outs[c].errs : c \in DOMAIN outs}

\* variant: an object without components is returned as an empty mapping
objectResultKeepsEmpty(outs) ==
  IF errorsOf(outs) # {} THEN Fail(errorsOf(outs))
  ELSE Ok(VMap([c \in DOMAIN outs |-> outs[c].val]))

\* decodeObjectField, lines 185-188, on the outcomes of the components kept
objectResult(outs) ==
  IF errorsOf(outs) # {} THEN Fail(errorsOf(outs))
  ELSE IF DOMAIN outs = {} THEN Ok(VNil)
  ELSE Ok(VMap([c \in DOMAIN outs |-> outs[c].val]))

\* lines 163-183 on the split text: the outcome of every component that is
\* in range and not empty
decodeComponents(segName, fieldIdx, components, comps) ==
  [c \in {c \in DOMAIN comps :
            /\ comps[c].Index - 1 >= 0
            /\ comps[c].Index - 1 < Len(components)
            /\ components[comps[c].Index] # <<>>} |->
     coerceValue(segName, fieldIdx, comps[c].Index,
                 components[comps[c].Index], comps[c].Type)]

decodeObjectField(segName, fieldIdx, raw, schema, cs) ==
  objectResult(decodeComponents(segName, fieldIdx, Split(raw, cs), schema.Components))

\* line 146 / 152: the item is appended, or its error returned
appendItem(items, r) ==
  IF r.errs # {} THEN Fail(r.errs) ELSE Ok(VSlice(Append(items, r.val)))

\* the loop of lines 135-154; acc is the outcome so far
RECURSIVE decodeReps(_, _, _, _, _, _)
decodeReps(segName, fieldIdx, reps, itemSchema, cs, acc) ==
  IF acc.errs # {} \/ reps = <<>> THEN acc
  ELSE IF Head(reps) = <<>>
       THEN decodeReps(segName, fieldIdx, Tail(reps), itemSchema, cs, acc)
  ELSE decodeReps(segName, fieldIdx, Tail(reps), itemSchema, cs,
                  appendItem(acc.val.a,
                             IF itemSchema.Type = "object"
                             THEN decodeObjectField(segName, fieldIdx, Head(reps),
                                                    itemSchema, cs)
                             ELSE coerceValue(segName, fieldIdx, 0, Head(reps),
                                              itemSchema.Type)))

decodeArrayField(segName, fieldIdx, raw, schema, cs, rs) ==
  decodeReps(segName, fieldIdx, IF rs # "" THEN Split(raw, rs) ELSE <<raw>>,
             schema.Items, cs, Ok(VSlice(<<>>)))

decodeFieldWithSchema(segName, fieldIdx, raw, schema, cs, rs) ==
  CASE schema.Type = "array" -> decodeArrayField(segName, fieldIdx, raw, schema, cs, rs)
    [] schema.Type = "object" -> decodeObjectField(segName, fieldIdx, raw, schema, cs)
    [] OTHER -> coerceValue(segName, fieldIdx, 0, raw, schema.Type)

\* variant: the component separator is always the default
ComponentSeparatorAlwaysDefault(seg) == "^"

ComponentSeparator(seg) ==
  IF Len(seg.encodingCharacters) > 0 THEN seg.encodingCharacters[1] ELSE "^"

\* variant: without a second encoding character the separator is "~"
RepetitionSeparatorDefaultsTilde(seg) ==
  IF Len(seg.encodingCharacters) > 1 THEN seg.encodingCharacters[2] ELSE "~"

RepetitionSeparator(seg) ==
  IF Len(seg.encodingCharacters) > 1 THEN seg.encodingCharacters[2] ELSE ""

\* variant: no offset for the header segment
partsIdxNoHeaderOffset(seg, idx) == idx

\* index into seg.fields (0-based, as in the code) for a declared position
partsIdx(seg, idx) == IF seg.name = MSH THEN idx - 1 ELSE idx

InRange(seg, idx) == partsIdx(seg, idx) >= 0 /\ partsIdx(seg, idx) < Len(seg.fields)

rawValue(seg, idx) ==
  IF seg.name = MSH /\ idx = 1 THEN <<seg.fieldSeparator>>
  ELSE seg.fields[partsIdx(seg, idx) + 1]

\* decodeSegmentWithSchema, lines 107-112, on the outcomes of the fields kept
segmentResult(outs) ==
  IF errorsOf(outs) # {} THEN Fail(errorsOf(outs))
  ELSE Ok([f \in {f \in DOMAIN outs : outs[f].val # VNil} |-> outs[f].val])

decodeSegmentWithSchema(seg, schema) ==
  segmentResult(
    [f \in {f \in DOMAIN schema.Fields :
              /\ InRange(seg, schema.Fields[f].Index)
              /\ rawValue(seg, schema.Fields[f].Index) # <<>>} |->
       decodeFieldWithSchema(seg.name, schema.Fields[f].Index,
                             rawValue(seg, schema.Fields[f].Index), schema.Fields[f],
                             ComponentSeparator(seg), RepetitionSeparator(seg))])


\* --------------------------------------------------------- map iteration
\* Go ranges over a map in an unspecified order.  An order is a sequence
\* that lists the keys; the model tries a listing and its reverse, which
\* gives every order of two keys.
PID == <<"P", "I", "D">>
OBX == <<"O", "B", "X">>
ZZZ == <<"Z", "Z", "Z">>

Reverse(q) == [j \in 1..Len(q) |-> q[Len(q) + 1 - j]]

SegListing == <<MSH, PID, OBX, ZZZ>>
NameListing == <<"fieldSeparator", "encodingCharacters", "app", "a", "b", "f", "g", "c", "e">>

InOrder(listing, S, desc) ==
  LET q == IF desc THEN Reverse(listing) ELSE listing
  IN SelectSeq(q, LAMBDA x : x \in S)

\* the key a range loop visits last among S
LastVisited(S, desc) == LET q == InOrder(NameListing, S, desc) IN q[Len(q)]

\* ------------------------------------------------------------ encode engine
DefaultMarshalOptions ==
  [FieldSeparator |-> "|", ComponentSeparator |-> "^", RepetitionSeparator |-> "~",
   EscapeCharacter |-> "\\", SubcomponentSeparator |-> "&", LineEnding |-> <<CR>>]

EncodeError(msg) == [kind |-> "EncodeError", msg |-> msg]

EOk(t) == [err |-> NoError, str |-> t]
EFail(e) == [err |-> e, str |-> <<>>]

\* fmt.Sprintf("%v", val) for the scalar kinds
Sprintv(val) ==
  CASE val.k = "string" -> val.s
    [] val.k = "int64" -> FormatInt(val.n)
    [] val.k = "float64" -> FormatFloat(val)
    [] val.k = "bool" -> IF val.b THEN <<"t", "r", "u", "e">> ELSE <<"f", "a", "l", "s", "e">>
    [] val.k = "time" ->
         Pad(val.y, 4) \o <<"-">> \o Pad(val.mo, 2) \o <<"-">> \o Pad(val.d, 2) \o <<" ">>
           \o Pad(val.h, 2) \o <<":">> \o Pad(val.mi, 2) \o <<":">> \o Pad(val.sec, 2)
           \o <<" ", "+", "0", "0", "0", "0", " ", "U", "T", "C">>
    [] OTHER -> <<"<", "n", "i", "l", ">">>

marshalScalarValue(val, typ) ==
  CASE typ = "string" -> IF val.k = "string" THEN val.s ELSE Sprintv(val)
    [] typ = "int" ->
         IF val.k = "int64" THEN FormatInt(val.n)
         ELSE IF val.k = "float64" THEN FormatInt(IF val.neg THEN 0 - val.ip ELSE val.ip)
         ELSE Sprintv(val)
    [] typ = "float" -> IF val.k = "float64" THEN FormatFloat(val) ELSE Sprintv(val)
    [] typ = "bool" ->
         IF val.k = "bool" THEN (IF val.b THEN <<"Y">> ELSE <<"N">>) ELSE Sprintv(val)
    [] typ = "timestamp" ->
         IF val.k = "time" THEN (IF IsZero(val) THEN <<>> ELSE FormatTime(val))
         ELSE IF val.k = "string" THEN val.s
         ELSE Sprintv(val)
    [] OTHER -> Sprintv(val)

\* variant: the slot array has one slot per declared component
MaxIndexCountsComponents(fs) == Cardinality(DOMAIN fs)

MaxIndex(fs) ==
  IF DOMAIN fs = {} THEN 0
  ELSE LET top == CHOOSE f \in DOMAIN fs : \A g \in DOMAIN fs : fs[g].Index <= fs[f].Index
       IN IF fs[top].Index > 0 THEN fs[top].Index ELSE 0

RECURSIVE TrimTrailingEmpty(_)
TrimTrailingEmpty(parts) ==
  IF parts # <<>> /\ parts[Len(parts)] = <<>>
  THEN TrimTrailingEmpty(SubSeq(parts, 1, Len(parts) - 1))
  ELSE parts

\* variant: every empty slot is dropped, not only the trailing ones
marshalObjectFromMapDropsEmpty(val, schema, cs, cdesc) ==
  IF val.k # "map" THEN EFail(EncodeError("expected map[string]any for object type"))
  ELSE
    LET comps == schema.Components
        m == val.m
        maxIdx == MaxIndex(comps)
        writers(p) == {c \in DOMAIN comps : comps[c].Index = p /\ c \in DOMAIN m}
        slot(p) == IF writers(p) = {} THEN <<>>
                   ELSE LET c == LastVisited(writers(p), cdesc)
                        IN marshalScalarValue(m[c], comps[c].Type)
        parts == [p \in 1..maxIdx |-> slot(p)]
    IN EOk(Join(SelectSeq(parts, LAMBDA t : t # <<>>), <<cs>>))

\* variant: trailing empty slots are not stripped
marshalObjectFromMapKeepsTrailing(val, schema, cs, cdesc) ==
  IF val.k # "map" THEN EFail(EncodeError("expected map[string]any for object type"))
  ELSE
    LET comps == schema.Components
        m == val.m
        maxIdx == MaxIndex(comps)
        writers(p) == {c \in DOMAIN comps : comps[c].Index = p /\ c \in DOMAIN m}
        slot(p) == IF writers(p) = {} THEN <<>>
                   ELSE LET c == LastVisited(writers(p), cdesc)
                        IN marshalScalarValue(m[c], comps[c].Type)
        parts == [p \in 1..maxIdx |-> slot(p)]
    IN EOk(Join(parts, <<cs>>))

\* line 202: the slots of parts that the loop over the components writes
slotsWritten(m, comps) == {comps[c].Index - 1 : c \in DOMAIN comps \cap DOMAIN m}

\* lines 192, 202: every slot written is one of the maxIdx slots of parts
slotsInRange(m, comps) ==
  \A k \in slotsWritten(m, comps) : 0 <= k /\ k < MaxIndex(comps)

marshalObjectFromMap(val, schema, cs, cdesc) ==
  IF val.k # "map" THEN EFail(EncodeError("expected map[string]any for object type"))
  ELSE
    LET comps == schema.Components
        m == val.m
        maxIdx == MaxIndex(comps)
        writers(p) == {c \in DOMAIN comps : comps[c].Index = p /\ c \in DOMAIN m}
        slot(p) == IF writers(p) = {} THEN <<>>
                   ELSE LET c == LastVisited(writers(p), cdesc)
                        IN marshalScalarValue(m[c], comps[c].Type)
        parts == [p \in 1..maxIdx |-> slot(p)]
    IN EOk(Join(TrimTrailingEmpty(parts), <<cs>>))

\* a loop's accumulator: the error that ended it, or the texts gathered
Gathered(list) == [err |-> NoError, list |-> list]

\* the text of r is appended, or its error returned
appendStr(list, r) ==
  IF r.err # NoError THEN [err |-> r.err, list |-> <<>>] ELSE Gathered(Append(list, r.str))

\* the loop of lines 220-235 and the join of line 237; acc is the outcome so far
RECURSIVE marshalItems(_, _, _, _, _, _)
marshalItems(arr, schema, cs, rs, cdesc, acc) ==
  IF acc.err # NoError THEN EFail(acc.err)
  ELSE IF arr = <<>> THEN EOk(Join(acc.list, <<rs>>))
  ELSE marshalItems(Tail(arr), schema, cs, rs, cdesc,
                    appendStr(acc.list,
                              IF schema.Items.Type = "object"
                              THEN marshalObjectFromMap(Head(arr), schema.Items, cs, cdesc)
                              ELSE EOk(marshalScalarValue(Head(arr), schema.Items.Type))))

marshalArrayFromMap(val, schema, cs, rs, cdesc) ==
  IF val.k # "slice" THEN EFail(EncodeError("expected []any for array type"))
  ELSE marshalItems(val.a, schema, cs, rs, cdesc, Gathered(<<>>))

\* variant: the header always carries the default encoding characters
EncodingCharsAlwaysDefault(o) == <<"^", "~", "\\", "&">>

marshalValueFromMap(val, schema, cs, rs, cdesc) ==
  IF val = VNil THEN EOk(<<>>)
  ELSE CASE schema.Type = "object" -> marshalObjectFromMap(val, schema, cs, cdesc)
         [] schema.Type = "array" -> marshalArrayFromMap(val, schema, cs, rs, cdesc)
         [] OTHER -> EOk(marshalScalarValue(val, schema.Type))

EncodingChars(opts) ==
  <<opts.ComponentSeparator, opts.RepetitionSeparator,
    opts.EscapeCharacter, opts.SubcomponentSeparator>>

\* indexToName[idx] after the range loop: the last field visited among those at idx
indexToName(fields, idx, fdesc) ==
  LastVisited({f \in DOMAIN fields : fields[f].Index = idx}, fdesc)

\* lines 145-151: the separator and the field's text, or the wrapped error
writeField(fs, r) ==
  IF r.err # NoError THEN EFail(EncodeError("hl7: segment field")) ELSE EOk(fs \o r.str)

\* variant: nothing is written, not even the separator, for a position
\* without a declared field or without a value
fieldTextSkipsSeparator(name, data, schema, opts, idx, fdesc, cdesc) ==
  LET fields == schema.Fields
      fs == <<opts.FieldSeparator>>
      isMSH == name = MSH
      declared == \E f \in DOMAIN fields : fields[f].Index = idx
      fieldName == indexToName(fields, idx, fdesc)
  IN IF isMSH /\ idx = 1 THEN EOk(fs)
     ELSE IF isMSH /\ idx = 2 THEN EOk(EncodingChars(opts))
     ELSE IF ~declared \/ fieldName \notin DOMAIN data THEN EOk(<<>>)
     ELSE writeField(fs, marshalValueFromMap(data[fieldName], fields[fieldName],
                                             opts.ComponentSeparator,
                                             opts.RepetitionSeparator, cdesc))

\* variant: MSH-2 is written from the tree like any other field
fieldTextHeaderFromTree(name, data, schema, opts, idx, fdesc, cdesc) ==
  LET fields == schema.Fields
      fs == <<opts.FieldSeparator>>
      isMSH == name = MSH
      declared == \E f \in DOMAIN fields : fields[f].Index = idx
      fieldName == indexToName(fields, idx, fdesc)
  IN IF isMSH /\ idx = 1 THEN EOk(fs)
     ELSE IF ~declared \/ fieldName \notin DOMAIN data THEN EOk(fs)
     ELSE writeField(fs, marshalValueFromMap(data[fieldName], fields[fieldName],
                                             opts.ComponentSeparator,
                                             opts.RepetitionSeparator, cdesc))

\* text written for position idx of a segment line, separator included
fieldText(name, data, schema, opts, idx, fdesc, cdesc) ==
  LET fields == schema.Fields
      fs == <<opts.FieldSeparator>>
      isMSH == name = MSH
      declared == \E f \in DOMAIN fields : fields[f].Index = idx
      fieldName == indexToName(fields, idx, fdesc)
  IN IF isMSH /\ idx = 1 THEN EOk(fs)
     ELSE IF isMSH /\ idx = 2 THEN EOk(EncodingChars(opts))
     ELSE IF ~declared \/ fieldName \notin DOMAIN data THEN EOk(fs)
     ELSE writeField(fs, marshalValueFromMap(data[fieldName], fields[fieldName],
                                             opts.ComponentSeparator,
                                             opts.RepetitionSeparator, cdesc))

\* the text of r is written to the buffer, or its error returned
appendText(buf, r) == IF r.err # NoError THEN EFail(r.err) ELSE EOk(buf \o r.str)

\* the loop of lines 118-152 from position idx; acc is the buffer so far
RECURSIVE marshalFields(_, _, _, _, _, _, _, _, _)
marshalFields(name, data, schema, opts, idx, maxIdx, fdesc, cdesc, acc) ==
  IF acc.err # NoError \/ idx > maxIdx THEN acc
  ELSE marshalFields(name, data, schema, opts, idx + 1, maxIdx, fdesc, cdesc,
                     appendText(acc.str,
                                fieldText(name, data, schema, opts, idx, fdesc, cdesc)))

marshalSegmentFromMap(name, data, schema, opts, fdesc, cdesc) ==
  marshalFields(name, data, schema, opts, 1, MaxIndex(schema.Fields), fdesc, cdesc, EOk(name))


\* the loop of lines 66-75 over the elements of a repeating segment
RECURSIVE marshalRepeated(_, _, _, _, _, _, _)
marshalRepeated(name, arr, segSchema, opts, fdesc, cdesc, acc) ==
  IF acc.err # NoError \/ arr = <<>> THEN acc
  ELSE IF Head(arr).k # "map"
       THEN marshalRepeated(name, Tail(arr), segSchema, opts, fdesc, cdesc, acc)
  ELSE marshalRepeated(name, Tail(arr), segSchema, opts, fdesc, cdesc,
                       appendStr(acc.list,
                                 marshalSegmentFromMap(name, Head(arr).m, segSchema,
                                                       opts, fdesc, cdesc)))

\* lines 56-92: the lines so far and those of one segment entry of the tree
\* (one per list element when repeating)
segmentLines(name, segData, segSchema, opts, fdesc, cdesc, lines) ==
  IF segSchema.Repeat
  THEN IF segData.k # "slice" THEN Gathered(lines)
       ELSE marshalRepeated(name, segData.a, segSchema, opts, fdesc, cdesc, Gathered(lines))
  ELSE IF segData.k # "map" THEN Gathered(lines)
       ELSE appendStr(lines,
                      marshalSegmentFromMap(name, segData.m, segSchema, opts, fdesc, cdesc))

\* variant: all names in map order, MSH among them
segNamesMapOrder(schema, sdesc) == InOrder(SegListing, DOMAIN schema, sdesc)

\* segNames: MSH first when the schema has it, the rest in map order
segNames(schema, sdesc) ==
  LET rest == InOrder(SegListing, DOMAIN schema \ {MSH}, sdesc)
  IN IF MSH \in DOMAIN schema THEN <<MSH>> \o rest ELSE rest

\* the loop of lines 48-93 over segNames; acc is the outcome so far
RECURSIVE marshalSegments(_, _, _, _, _, _, _)
marshalSegments(names, v, schema, opts, fdesc, cdesc, acc) ==
  IF acc.err # NoError \/ names = <<>> THEN acc
  ELSE IF Head(names) \notin DOMAIN v
       THEN marshalSegments(Tail(names), v, schema, opts, fdesc, cdesc, acc)
  ELSE marshalSegments(Tail(names), v, schema, opts, fdesc, cdesc,
                       segmentLines(Head(names), v[Head(names)], schema[Head(names)],
                                    opts, fdesc, cdesc, acc.list))

\* line 95: the lines joined with the line ending
joinLines(r, lineEnding) ==
  [err |-> r.err, lines |-> r.list, bytes |-> Join(r.list, lineEnding)]

\* MarshalWithSchemaOptions(v, schema, opts) under the map orders sdesc
\* (schema.Segments), fdesc (a segment's Fields) and cdesc (Components).
\* v is the tree's mapping.  Returns the error, the lines written and the bytes.
MarshalWithSchemaOptions(v, schema, opts, sdesc, fdesc, cdesc) ==
  joinLines(marshalSegments(segNames(schema, sdesc), v, schema, opts, fdesc, cdesc,
                            Gathered(<<>>)),
            opts.LineEnding)

\* ------------------------------------------------- UnmarshalWithSchema loop
\* variant: a later occurrence of a repeating segment replaces the list
storeSegmentOverwrites(result, name, segSchema, r) ==
  IF r.errs # {} THEN Fail(r.errs)
  ELSE IF DOMAIN r.val = {} THEN Ok(VMap(result))
  ELSE IF segSchema.Repeat
       THEN Ok(VMap((name :> VSlice(<<VMap(r.val)>>)) @@ result))
       ELSE Ok(VMap((name :> VMap(r.val)) @@ result))

\* variant: a later occurrence of a plain segment adds its fields to the
\* mapping of the earlier one
storeSegmentMerges(result, name, segSchema, r) ==
  IF r.errs # {} THEN Fail(r.errs)
  ELSE IF DOMAIN r.val = {} THEN Ok(VMap(result))
  ELSE IF segSchema.Repeat
       THEN IF name \in DOMAIN result
            THEN Ok(VMap([result EXCEPT ![name] = VSlice(Append(@.a, VMap(r.val)))]))
            ELSE Ok(VMap((name :> VSlice(<<VMap(r.val)>>)) @@ result))
       ELSE IF name \in DOMAIN result
            THEN Ok(VMap([result EXCEPT ![name] = VMap(r.val @@ @.m)]))
            ELSE Ok(VMap((name :> VMap(r.val)) @@ result))

\* line 52: the assertion existing.([]any) holds for what the tree has under name
listAsserted(result, name) == result[name].k = "slice"

\* lines 41-59: what the loop does with the outcome r of decodeSegmentWithSchema
storeSegment(result, name, segSchema, r) ==
  IF r.errs # {} THEN Fail(r.errs)
  ELSE IF DOMAIN r.val = {} THEN Ok(VMap(result))
  ELSE IF segSchema.Repeat
       THEN IF name \in DOMAIN result
            THEN Ok(VMap([result EXCEPT ![name] = VSlice(Append(@.a, VMap(r.val)))]))
            ELSE Ok(VMap((name :> VSlice(<<VMap(r.val)>>)) @@ result))
       ELSE Ok(VMap((name :> VMap(r.val)) @@ result))

\* variant: a record whose name is not in the schema is stored as an empty mapping
decodeStepKeepsUnknown(result, seg, schema) ==
  IF seg.name \notin DOMAIN schema THEN Ok(VMap((seg.name :> VMap(<<>>)) @@ result))
  ELSE storeSegment(result, seg.name, schema[seg.name],
                    decodeSegmentWithSchema(seg, schema[seg.name]))

\* one iteration of the loop over the segment records: the mapping built so
\* far and the record give the possible errors or the next tree
decodeStep(result, seg, schema) ==
  IF seg.name \notin DOMAIN schema THEN Ok(VMap(result))
  ELSE storeSegment(result, seg.name, schema[seg.name],
                    decodeSegmentWithSchema(seg, schema[seg.name]))

\* the loop of lines 34-60; acc is the outcome so far
RECURSIVE decodeAll(_, _, _)
decodeAll(acc, segs, schema) ==
  IF acc.errs # {} \/ segs = <<>> THEN acc
  ELSE decodeAll(decodeStep(acc.val.m, Head(segs), schema), Tail(segs), schema)

\* lines 28-62 on the tokenizer's outcome p
decodeLines(p, schema) ==
  IF p.err # NoError THEN Fail({p.err}) ELSE decodeAll(Ok(VMap(<<>>)), p.lines, schema)

\* UnmarshalWithSchema(d, schema) as one call
UnmarshalWithSchema(d, schema) == decodeLines(parseMessage(d), schema)

\* ------------------------------------------------ UnmarshalMultiWithSchema
\* bytes.TrimSpace on a line (line breaks are gone by then)
Whitespace == {" ", "\t"}

RECURSIVE TrimLeft(_)
TrimLeft(s) == IF s # <<>> /\ Head(s) \in Whitespace THEN TrimLeft(Tail(s)) ELSE s

RECURSIVE TrimRight(_)
TrimRight(s) ==
  IF s # <<>> /\ s[Len(s)] \in Whitespace THEN TrimRight(SubSeq(s, 1, Len(s) - 1)) ELSE s

TrimSpace(s) == TrimRight(TrimLeft(s))

\* splitMessages, lines 67-69: a non-blank line joins the current message
keepLine(line, trimmed, st) ==
  IF trimmed # <<>> THEN [st EXCEPT !.current = Append(@, line)] ELSE st

\* variant: a header line never starts a new message
splitLineNeverStarts(line, trimmed, st) ==
  keepLine(line, trimmed, st)

\* lines 62-70: one iteration of the loop over the lines
splitLine(line, trimmed, st) ==
  keepLine(line, trimmed,
           IF HasPrefix(trimmed, MSH) /\ st.current # <<>>
           THEN [current |-> <<>>, messages |-> Append(st.messages, Join(st.current, <<LF>>))]
           ELSE st)

\* lines 72-75
lastMessage(st) ==
  IF st.current # <<>> THEN Append(st.messages, Join(st.current, <<LF>>)) ELSE st.messages

RECURSIVE splitLoop(_, _)
splitLoop(ls, st) ==
  IF ls = <<>> THEN lastMessage(st)
  ELSE splitLoop(Tail(ls), splitLine(Head(ls), TrimSpace(Head(ls)), st))

splitMessages(d) ==
  splitLoop(Split(NormalizeLineEndings(d), LF), [current |-> <<>>, messages |-> <<>>])

\* schema_decode.go lines 15-19: the tree of a chunk joins the results
appendResult(acc, r) ==
  IF r.errs # {} THEN Fail(r.errs) ELSE Ok(VSlice(Append(acc.val.a, r.val)))

RECURSIVE multiLoop(_, _, _)
multiLoop(chunks, schema, acc) ==
  IF acc.errs # {} \/ chunks = <<>> THEN acc
  ELSE multiLoop(Tail(chunks), schema,
                 appendResult(acc, UnmarshalWithSchema(Head(chunks), schema)))

UnmarshalMultiWithSchema(d, schema) ==
  multiLoop(splitMessages(d), schema, Ok(VSlice(<<>>)))


\* ------------------------------------------------------------------ inputs
Map2(k1, v1, k2, v2) == (k1 :> v1) @@ (k2 :> v2)

ObjComps == Map2("a", Leaf(1, "string"), "b", Leaf(2, "int"))
ItemComps == Map2("a", Leaf(1, "string"), "b", Leaf(2, "string"))
DupComps == Map2("a", Leaf(1, "string"), "b", Leaf(1, "int"))

\* the descriptors a field at position i ranges over
Kinds(i) ==
  {Leaf(i, "string"), Leaf(i, "int"), Leaf(i, "float"), Leaf(i, "bool"),
   Leaf(i, "timestamp"), Obj(i, ObjComps), Arr(i, ItemLeaf("string")),
   Arr(i, ItemLeaf("int")), Arr(i, ItemObj(ItemComps))}

Segment(fields, repeat) == [Fields |-> fields, Repeat |-> repeat]

MSHFields ==
  ("fieldSeparator" :> Leaf(1, "string")) @@ ("encodingCharacters" :> Leaf(2, "string"))
     @@ ("app" :> Leaf(3, "string"))

SchemaOf(mshFields, bodyFields) ==
  (MSH :> Segment(mshFields, FALSE)) @@ (PID :> Segment(bodyFields, FALSE))
     @@ (OBX :> Segment(bodyFields, TRUE))

\* validated schemas: header MSH, plain PID, repeating OBX
Schemas ==
  {SchemaOf(MSHFields, Map2("f", F, "g", Leaf(3, "string"))) : F \in Kinds(1)}
    \cup {SchemaOf("fieldSeparator" :> Leaf(1, "string"),
                   Map2("f", Leaf(1, "string"), "g", Leaf(1, "int"))),
          SchemaOf(MSHFields, Map2("f", Obj(1, DupComps), "g", Leaf(1, "string")))}

TextChars == {"a", "1", "^", "~"}
HashTextChars == {"a", "|", "^"}

TextsOver(chars, n) == UNION {[1..k -> chars] : k \in 0..n}

SpecialTexts == {<<"0", "0", "0", "1">>, <<"1", "1", "1", "1">>, <<"N">>}

\* header lines: none, standard, swapped component/repetition, no repetition
\* separator, no encoding characters, custom field separator, bare name
Headers ==
  {<<>>,
   MSH \o <<"|", "^", "~", "\\", "&", "|", "a">>,
   MSH \o <<"|", "~", "^", "|", "a">>,
   MSH \o <<"|", "^", "|", "a">>,
   MSH \o <<"|", "|", "a">>,
   MSH \o <<"#", "^", "~", "\\", "&", "#", "a">>,
   MSH}

BodySeparator(h) == IF Len(h) > 3 THEN h[4] ELSE "|"

BodyTexts(h) ==
  (IF BodySeparator(h) = "#" THEN TextsOver(HashTextChars, MaxTextLen)
   ELSE TextsOver(TextChars, MaxTextLen)) \cup SpecialTexts

\* a body line: the name alone, the name and field 1, or fields 1..3 with 3 = "a"
BodyLines(h) ==
  LET fs == <<BodySeparator(h)>>
  IN UNION {{n, n \o fs \o t, n \o fs \o t \o fs \o fs \o <<"a">>} :
              n \in {PID, OBX}, t \in BodyTexts(h)}

WithHeader(h, body, le) == IF h = <<>> THEN body ELSE h \o le \o body

SingleLineMessages == UNION {{WithHeader(h, b, <<CR>>) : b \in BodyLines(h)} : h \in Headers}

ShortLines ==
  {PID \o <<"|", "a">>, PID \o <<"|">>, OBX \o <<"|", "a">>, OBX \o <<"|", "1">>,
   OBX \o <<"|">>, ZZZ \o <<"|", "a">>, <<>>, <<"|", "a">>}

MultiLineMessages ==
  UNION {{WithHeader(h, Join(ls, le), le) :
            ls \in UNION {[1..k -> ShortLines] : k \in 1..MaxLines}} :
         h \in {<<>>, MSH \o <<"|", "^", "~", "\\", "&", "|", "a">>},
         le \in {<<LF>>, <<CR, LF>>}}

Messages == SingleLineMessages \cup MultiLineMessages

CustomMarshalOptions ==
  [FieldSeparator |-> "#", ComponentSeparator |-> "~", RepetitionSeparator |-> "^",
   EscapeCharacter |-> "\\", SubcomponentSeparator |-> "&", LineEnding |-> <<LF>>]

OptionSets == {DefaultMarshalOptions, CustomMarshalOptions}

\* trees handed to the encoder directly: PID.f is an object whose components
\* sit at positions 1, 3, 5 (PosComps), 1, 2 (ObjComps) or 1, 1 (DupComps)
PosComps ==
  ("a" :> Leaf(1, "string")) @@ ("c" :> Leaf(3, "string")) @@ ("e" :> Leaf(5, "string"))

EncodeSchemas ==
  {SchemaOf(MSHFields, Map2("f", Obj(1, C), "g", Leaf(2, "string"))) :
     C \in {PosComps, ObjComps, DupComps}}

CompValues == {VStr(<<"a">>), VStr(<<>>), VStr(<<"^">>), VInt(1)}

ObjectValues(comps) == UNION {[S -> CompValues] : S \in SUBSET DOMAIN comps}

TreesOf(s) ==
  {VMap(PID :> VMap(m)) :
     m \in {"f" :> VMap(v) : v \in ObjectValues(s[PID].Fields["f"].Components)}
          \cup {Map2("f", VMap(v), "g", VStr(<<"a">>)) :
                   v \in ObjectValues(s[PID].Fields["f"].Components)}}

\* texts of a bool field, and the one-line messages that carry them
BoolTexts ==
  {<<"Y">>, <<"y">>, <<"N">>, <<"n">>, <<"1">>, <<"0">>,
   <<"T", "R", "U", "E">>, <<"t", "r", "u", "e">>, <<"T", "r", "u", "e">>,
   <<"t", "R", "u", "E">>, <<"F", "A", "L", "S", "E">>, <<"f", "a", "l", "s", "e">>,
   <<"F", "a", "l", "s", "e">>, <<"T">>, <<"F">>, <<"t">>, <<"f">>,
   <<"Y", "E", "S">>, <<"y", "e", "s">>, <<"2">>, <<"0", "1">>, <<"1", "0">>,
   <<"Y", "Y">>, <<"a">>, <<"T", "R", "U">>, <<"T", "R", "U", "E", "E">>,
   <<"Y", " ">>, <<"-", "1">>}

BoolSchemas ==
  {SchemaOf(MSHFields, Map2("f", Leaf(1, "bool"), "g", Leaf(3, "string")))}

BoolMessages == {n \o <<"|">> \o t : n \in {PID, OBX}, t \in BoolTexts}

\* texts handed to Timestamp.Unmarshal: date and clock digits, then what
\* may follow the seconds
Clock14 ==
  {<<"2", "0", "2", "4", "0", "2", "2", "9", "1", "3", "0", "5", "5", "9">>,
   <<"2", "0", "2", "3", "0", "2", "2", "9", "1", "3", "0", "5", "5", "9">>,
   <<"2", "0", "2", "4", "0", "2", "2", "9", "1", "3", "6", "0", "0", "0">>}

AfterSeconds ==
  {<<>>, <<".", "1">>, <<".", "1", "2", "3", "4">>, <<".", "1", "2", "3", "4", "5">>,
   <<"-", "0", "5", "0", "0">>, <<"+", "0", "5", "3", "0">>, <<"+", "0", "7", "0", "0">>,
   <<".", "1", "2", "3", "4", "-", "0", "5", "0", "0">>,
   <<".", "1", "2", "3", "4", "+", "0", "7", "0", "0">>,
   <<".", "1", "2", "+", "0", "1", "0", "0">>,
   <<".", "1", "2", "3", "4", "Z">>, <<"Z">>, <<".">>, <<"+", "0", "5">>,
   <<"-", "0", "5", "0", "0", "0">>, <<"1">>}

TimestampTexts ==
  {c \o a : c \in Clock14, a \in AfterSeconds}
    \cup {SubSeq(c, 1, n) : c \in Clock14, n \in {0, 3, 4, 5, 6, 7, 8, 9, 10, 11, 12, 13}}
    \cup {<<"2", "0", "2", "4", "1", "3">>, <<"2", "0", "2", "4", "0", "0">>,
          <<"2", "0", "2", "4", "0", "1", "0", "1", "2", "4">>,
          <<"2", "0", "2", "4", "0", "1", "0", "1", "5", "a">>,
          <<"2", "0", "2", "4", "-", "0", "2">>, <<"a", "b", "c", "d">>,
          <<"0", "0", "0", "1", "0", "1", "0", "1">>}

\* values the receiver holds before the call
EarlierTimes == {ZeroTime, VTime(1999, 12, 31, 23, 59, 59)}

\* messages of up to three lines with headers that change the separators
\* and with segments that occur more than once
MaxMessageLines == 3

HashHeader == MSH \o <<"#", "~", "^", "#", "a">>

\* lines for a schema of plain fields: headers and body lines in either separator
LineTexts ==
  {MSH \o <<"|", "^", "~", "\\", "&", "|", "a">>, HashHeader, MSH,
   PID \o <<"|", "1">>, PID \o <<"|", "|", "|", "a">>, PID \o <<"|">>,
   PID \o <<"#", "1">>, OBX \o <<"|", "1">>}

\* lines for a schema with an object field: components set at 1 and 5, none set
ObjectLineTexts ==
  {PID \o <<"|", "1">>, PID \o <<"|", "1", "^", "^", "^", "^", "1">>,
   PID \o <<"|", "^">>, OBX \o <<"|", "1">>, OBX \o <<"|">>}

MessagesOf(texts) ==
  {Join(ls, <<CR>>) : ls \in UNION {[1..k -> texts] : k \in 1..MaxMessageLines}}

LineSchemas ==
  {SchemaOf(MSHFields, Map2("f", Leaf(1, "int"), "g", Leaf(3, "string")))}

ObjectLineSchemas ==
  {SchemaOf(MSHFields, Map2("f", Obj(1, PosComps), "g", Arr(3, ItemObj(ObjComps))))}

LineInputs ==
  (LineSchemas \X MessagesOf(LineTexts)) \cup (ObjectLineSchemas \X MessagesOf(ObjectLineTexts))

\* streams of up to three lines, among them blank and indented lines, a line
\* that starts with the separator and a field that is not a number
StreamLines ==
  {MSH \o <<"|", "^", "~", "\\", "&", "|", "a">>,
   <<" ">> \o MSH \o <<"|", "^", "~", "\\", "&", "|", "a">>,
   PID \o <<"|", "1">>, PID \o <<"|", "a">>, OBX \o <<"|", "1">>,
   <<>>, <<" ">>, <<"|", "a">>}

StreamTexts ==
  {Join(ls, <<t>>) : ls \in UNION {[1..k -> StreamLines] : k \in 1..MaxMessageLines},
                     t \in {CR, LF}}

\* calls that run side by side on one schema
Callers == {1, 2}

ConcSchemas ==
  {SchemaOf(MSHFields, Map2("f", Leaf(1, "int"), "g", Leaf(3, "string"))),
   SchemaOf(MSHFields, Map2("f", Obj(1, DupComps), "g", Leaf(1, "string")))}

StandardHeader == MSH \o <<"|", "^", "~", "\\", "&", "|", "a">>

ConcMessages ==
  {PID \o <<"|", "1">>,
   PID \o <<"|", "a">>,
   Join(<<PID \o <<"|", "1">>, OBX \o <<"|", "1">>, OBX \o <<"|", "1", "1">> >>, <<LF>>),
   Join(<<MSH \o <<"|", "~", "^", "|", "a">>, PID \o <<"|", "1", "~", "1">> >>, <<CR>>),
   Join(<<PID \o <<"|", "1">>, <<"|", "a">> >>, <<LF>>),
   Join(<<StandardHeader, PID \o <<"|", "1">>, StandardHeader, OBX \o <<"|", "1">> >>, <<CR>>),
   ZZZ \o <<"|", "a">>}

\* the trees UnmarshalWithSchema returns for these messages
ConcTrees(s) ==
  {UnmarshalWithSchema(d, s).val :
     d \in {m \in ConcMessages : UnmarshalWithSchema(m, s).errs = {}}}

\* the arguments, locals and results of one call
IdleCall ==
  [op |-> "none", pc |-> "idle", data |-> <<>>, v |-> VNil, opts |-> DefaultMarshalOptions,
   segments |-> <<>>, idx |-> 1, result |-> VNil, results |-> VNil, output |-> <<>>,
   err |-> NoError]

\* ------------------------------------------------------ schema validation
\* A definition is what json.Unmarshal leaves in the MessageSchema: a map of
\* segments (NilSegment for a null), each a map of field descriptors
\* (NilField for a null or an absent items member); an omitted type is "",
\* an omitted index is 0.
validSchemaTypes == {"string", "int", "float", "bool", "timestamp", "object", "array"}

NilField == NoItems
NilSegment == [nil |-> TRUE]
NilSchema == [nil |-> TRUE]

\* Path is the dotted path as a sequence of characters and words; the
\* argument formatted into the message is kept as detail
SchemaError(path, msg, detail) ==
  [kind |-> "SchemaError", Path |-> path, Err |-> msg, detail |-> detail]

\* An outcome: the errors the validation may return (which one depends on
\* the order the maps are ranged over; none when it succeeds) and the
\* descriptor as validateField leaves it
Valid(d) == [errs |-> {}, def |-> d]
Invalid(es, d) == [errs |-> es, def |-> d]

\* variant: an index is never required
indexNeverRequired(f, requireIndex) == FALSE

\* line 103
indexMissing(f, requireIndex) == requireIndex /\ f.Index <= 0

\* lines 108-110: the type after defaulting
defaultedType(f) == IF f.Type = "" THEN "string" ELSE f.Type

errorsIn(outs) == UNION {outs[k].errs : k \in DOMAIN outs}

\* lines 119-124, once every component has been validated
componentsChecked(f, outs) ==
  Invalid(errorsIn(outs),
          [f EXCEPT !.Type = "object", !.Components = [c \in DOMAIN outs |-> outs[c].def]])

\* lines 130-133, once the items descriptor has been validated
itemsChecked(f, out) == Invalid(out.errs, [f EXCEPT !.Type = "array", !.Items = out.def])

RECURSIVE validateField(_, _, _)
validateField(path, f, requireIndex) ==
  IF f = NilField THEN Invalid({SchemaError(path, "nil field", <<>>)}, f)
  ELSE IF indexMissing(f, requireIndex)
  THEN Invalid({SchemaError(path, "index is required and must be > 0, got %d",
                            FormatInt(f.Index))}, f)
  ELSE IF defaultedType(f) \notin validSchemaTypes
  THEN Invalid({SchemaError(path, "invalid type %q", <<f.Type>>)}, f)
  ELSE IF defaultedType(f) = "object"
  THEN IF DOMAIN f.Components = {}
       THEN Invalid({SchemaError(path, "object type requires components", <<>>)}, f)
       ELSE componentsChecked(f,
              [c \in DOMAIN f.Components |->
                 validateField(path \o <<".", "components", ".", c>>, f.Components[c], TRUE)])
  ELSE IF defaultedType(f) = "array"
  THEN IF f.Items = NilField
       THEN Invalid({SchemaError(path, "array type requires items", <<>>)}, f)
       ELSE itemsChecked(f, validateField(path \o <<".", "items">>, f.Items, FALSE))
  ELSE Valid([f EXCEPT !.Type = defaultedType(f)])

\* lines 88-93, once every field has been validated
fieldsChecked(seg, outs) ==
  Invalid(errorsIn(outs), [seg EXCEPT !.Fields = [f \in DOMAIN outs |-> outs[f].def]])

\* lines 82-93: one iteration of the loop over the segments
validateSegment(segName, seg) ==
  IF seg = NilSegment
  THEN Invalid({SchemaError(<<"segments", ".">> \o segName, "nil segment", <<>>)}, seg)
  ELSE IF DOMAIN seg.Fields = {}
  THEN Invalid({SchemaError(<<"segments", ".">> \o segName \o <<".", "fields">>,
                            "no fields defined", <<>>)}, seg)
  ELSE fieldsChecked(seg,
         [f \in DOMAIN seg.Fields |->
            validateField(<<"segments", ".">> \o segName \o <<".", "fields", ".", f>>,
                          seg.Fields[f], TRUE)])

segmentsChecked(outs) == Invalid(errorsIn(outs), [n \in DOMAIN outs |-> outs[n].def])

Validate(s) ==
  IF DOMAIN s = {} THEN Invalid({SchemaError(<<"segments">>, "no segments defined", <<>>)}, s)
  ELSE segmentsChecked([n \in DOMAIN s |-> validateSegment(n, s[n])])

\* the definitions handed to ParseSchema
RawLeaves ==
  {Leaf(i, t) : i \in {-1, 0, 1}, t \in {"", "string", "text"}} \cup {NilField}

RawComponents == {NoComponents} \cup {"a" :> l : l \in RawLeaves}

RawItems ==
  RawLeaves \cup {Obj(0, "a" :> Leaf(1, "")), Obj(0, "a" :> Leaf(0, "")), Obj(0, NoComponents),
                  Arr(0, Leaf(0, "")), Arr(0, NilField)}

RawFields ==
  RawLeaves \cup {Obj(1, c) : c \in RawComponents} \cup {Arr(1, i) : i \in RawItems}
    \cup {Obj(0, "a" :> Leaf(1, "")), Arr(0, Leaf(0, ""))}

RawSegments ==
  {NilSegment, Segment(<<>>, FALSE)}
    \cup {Segment("f" :> F, r) : F \in RawFields, r \in BOOLEAN}
    \cup {Segment(Map2("f", F, "g", G), FALSE) :
            F \in {Leaf(1, ""), Leaf(0, ""), Leaf(1, "text")},
            G \in {Leaf(2, "int"), Leaf(1, ""), Leaf(2, "text"), Obj(2, "a" :> Leaf(0, ""))}}

Definitions ==
  {<<>>} \cup {PID :> S : S \in RawSegments}
    \cup {(PID :> S) @@ (OBX :> T) :
            S \in {Segment("f" :> Leaf(1, ""), FALSE), NilSegment},
            T \in {Segment("f" :> Leaf(1, "int"), TRUE), Segment(<<>>, FALSE),
                   Segment("f" :> Arr(1, NilField), FALSE)}}

\* ------------------------------------------------------------------- state
VARIABLES schema, data, pc, segments, idx, result, err,
          componentSeparator, repetitionSeparator, segMap,
          opts, output, lines, merr, result2, err2, calls, chunks

vars == <<schema, data, pc, segments, idx, result, err,
          componentSeparator, repetitionSeparator, segMap,
          opts, output, lines, merr, result2, err2, calls, chunks>>

decodeVars == <<componentSeparator, repetitionSeparator, segMap>>
encodeVars == <<opts, output, lines, merr, result2, err2>>
callVars == <<data, pc, segments, idx, result, err, decodeVars, encodeVars, chunks>>

Init ==
  /\ schema \in Schemas
  /\ data \in Messages
  /\ pc = "parse"
  /\ segments = <<>>
  /\ idx = 1
  /\ result = VNil
  /\ err = NoError
  /\ componentSeparator = ""
  /\ repetitionSeparator = ""
  /\ segMap = <<>>
  /\ opts = DefaultMarshalOptions
  /\ output = <<>>
  /\ lines = <<>>
  /\ merr = NoError
  /\ result2 = VNil
  /\ err2 = NoError
  /\ calls = [p \in Callers |-> IdleCall]
  /\ chunks = <<>>

\* UnmarshalWithSchema, lines 27-32: tokenize, fail or start the loop
Parse ==
  /\ pc = "parse"
  /\ \E p \in {parseMessage(data)} :
       IF p.err # NoError
       THEN /\ segments' = p.lines
            /\ err' = p.err
            /\ result' = VNil
            /\ pc' = "done"
       ELSE /\ segments' = p.lines
            /\ result' = VMap(<<>>)
            /\ pc' = "loop"
            /\ UNCHANGED err
  /\ UNCHANGED <<calls, chunks, schema, data, idx, decodeVars, encodeVars>>

\* lines 34-60: one iteration of the loop, on record idx
DecodeSegment ==
  /\ pc = "loop"
  /\ idx <= Len(segments)
  /\ \E seg \in {segments[idx]} :
       \E known \in {seg.name \in DOMAIN schema}, r \in {decodeStep(result.m, seg, schema)} :
         /\ componentSeparator' = IF known THEN ComponentSeparator(seg)
                                  ELSE componentSeparator
         /\ repetitionSeparator' = IF known THEN RepetitionSeparator(seg)
                                   ELSE repetitionSeparator
         /\ segMap' = IF known /\ r.errs = {}
                      THEN decodeSegmentWithSchema(seg, schema[seg.name]).val
                      ELSE segMap
         /\ IF r.errs # {}
            THEN /\ err' \in r.errs
                 /\ result' = VNil
                 /\ pc' = "done"
                 /\ UNCHANGED idx
            ELSE /\ result' = r.val
                 /\ idx' = idx + 1
                 /\ UNCHANGED <<err, pc>>
  /\ UNCHANGED <<calls, chunks, schema, data, segments, encodeVars>>

\* line 62
Return ==
  /\ pc = "loop"
  /\ idx > Len(segments)
  /\ pc' = "done"
  /\ UNCHANGED <<calls, chunks, schema, data, segments, idx, result, err, decodeVars, encodeVars>>

\* MarshalWithSchemaOptions on the decoded tree
Marshal ==
  /\ pc = "done"
  /\ err = NoError
  /\ \E o \in OptionSets, sdesc \in BOOLEAN, fdesc \in BOOLEAN, cdesc \in BOOLEAN :
       \E r \in {MarshalWithSchemaOptions(result.m, schema, o, sdesc, fdesc, cdesc)} :
          /\ opts' = o
          /\ merr' = r.err
          /\ lines' = r.lines
          /\ output' = IF r.err = NoError THEN r.bytes ELSE <<>>
  /\ pc' = "encoded"
  /\ UNCHANGED <<calls, chunks, schema, data, segments, idx, result, err, decodeVars, result2, err2>>

\* UnmarshalWithSchema on the encoder's output
Redecode ==
  /\ pc = "encoded"
  /\ merr = NoError
  /\ \E r \in {UnmarshalWithSchema(output, schema)} :
       IF r.errs # {}
       THEN err2' \in r.errs /\ result2' = VNil
       ELSE err2' = NoError /\ result2' = r.val
  /\ pc' = "redecoded"
  /\ UNCHANGED <<calls, chunks, schema, data, segments, idx, result, err, decodeVars,
                 opts, output, lines, merr>>

Next == Parse \/ DecodeSegment \/ Return \/ Marshal \/ Redecode

Spec == Init /\ [][Next]_vars

\* MarshalWithSchemaOptions called on a tree the caller built
EncodeInit ==
  /\ schema \in EncodeSchemas
  /\ result \in UNION {TreesOf(s) : s \in EncodeSchemas}
  /\ result \in TreesOf(schema)
  /\ data = <<>>
  /\ pc = "done"
  /\ segments = <<>>
  /\ idx = 1
  /\ err = NoError
  /\ componentSeparator = ""
  /\ repetitionSeparator = ""
  /\ segMap = <<>>
  /\ opts = DefaultMarshalOptions
  /\ output = <<>>
  /\ lines = <<>>
  /\ merr = NoError
  /\ result2 = VNil
  /\ err2 = NoError
  /\ calls = [p \in Callers |-> IdleCall]
  /\ chunks = <<>>

EncodeNext == Marshal \/ Redecode

\* ParseSchema on a definition that json.Unmarshal decoded: schema holds the
\* local MessageSchema before the call and the returned pointer after it
SchemaInit ==
  /\ schema \in Definitions
  /\ data = <<>>
  /\ pc = "schema"
  /\ segments = <<>>
  /\ idx = 1
  /\ result = VNil
  /\ err = NoError
  /\ componentSeparator = ""
  /\ repetitionSeparator = ""
  /\ segMap = <<>>
  /\ opts = DefaultMarshalOptions
  /\ output = <<>>
  /\ lines = <<>>
  /\ merr = NoError
  /\ result2 = VNil
  /\ err2 = NoError
  /\ calls = [p \in Callers |-> IdleCall]
  /\ chunks = <<>>

\* lines 61-64
ParseSchema ==
  /\ pc = "schema"
  /\ \E r \in {Validate(schema)} :
       IF r.errs = {}
       THEN /\ schema' = r.def
            /\ err' = NoError
            /\ pc' = "validated"
       ELSE /\ schema' = NilSchema
            /\ err' \in r.errs
            /\ pc' = "rejected"
  /\ UNCHANGED <<calls, chunks, data, segments, idx, result, decodeVars, encodeVars>>

SchemaNext == ParseSchema

SchemaSpec == SchemaInit /\ [][SchemaNext]_vars

\* ------------------------------------------------------- concurrent calls
\* UnmarshalWithSchema, UnmarshalMultiWithSchema and MarshalWithSchemaOptions
\* called side by side, and again after they return, on one validated schema.
\* calls[p] holds the arguments, locals and results of caller p's call.
ConcInit ==
  /\ schema \in ConcSchemas
  /\ calls = [p \in Callers |-> IdleCall]
  /\ chunks = <<>>
  /\ data = <<>>
  /\ pc = "calls"
  /\ segments = <<>>
  /\ idx = 1
  /\ result = VNil
  /\ err = NoError
  /\ componentSeparator = ""
  /\ repetitionSeparator = ""
  /\ segMap = <<>>
  /\ opts = DefaultMarshalOptions
  /\ output = <<>>
  /\ lines = <<>>
  /\ merr = NoError
  /\ result2 = VNil
  /\ err2 = NoError

Free(p) == calls[p].pc \in {"idle", "returned"}

StartUnmarshal ==
  \E p \in Callers, d \in ConcMessages :
    /\ Free(p)
    /\ calls' = [calls EXCEPT ![p] = [IdleCall EXCEPT !.op = "unmarshal", !.pc = "parse",
                                                       !.data = d]]
    /\ UNCHANGED <<schema, callVars>>

StartMulti ==
  \E p \in Callers, d \in ConcMessages :
    /\ Free(p)
    /\ calls' = [calls EXCEPT ![p] = [IdleCall EXCEPT !.op = "multi", !.pc = "multi",
                                                       !.data = d]]
    /\ UNCHANGED <<schema, callVars>>

StartMarshal ==
  \E p \in Callers, o \in OptionSets :
    /\ Free(p)
    /\ \E t \in ConcTrees(schema) :
         calls' = [calls EXCEPT ![p] = [IdleCall EXCEPT !.op = "marshal", !.pc = "marshal",
                                                        !.v = t, !.opts = o]]
    /\ UNCHANGED <<schema, callVars>>

\* schema_decode.go lines 27-32 on the tokenizer's outcome r
parsed(c, r) ==
  IF r.err # NoError
  THEN [c EXCEPT !.segments = r.lines, !.err = r.err, !.result = VNil, !.pc = "returned"]
  ELSE [c EXCEPT !.segments = r.lines, !.result = VMap(<<>>), !.pc = "loop"]

CallParse ==
  \E p \in Callers :
    /\ calls[p].pc = "parse"
    /\ calls' = [calls EXCEPT ![p] = parsed(calls[p], parseMessage(calls[p].data))]
    /\ UNCHANGED <<schema, callVars>>

\* variant: the encoding characters are those of the record another call
\* tokenized last
CallSegmentSharedSeparators(p) ==
  LET seg == calls[p].segments[calls[p].idx]
      others == {q \in Callers \ {p} : calls[q].segments # <<>>}
  IN IF others = {} THEN seg
     ELSE LET q == CHOOSE q \in others : TRUE
          IN [seg EXCEPT !.encodingCharacters =
                           calls[q].segments[Len(calls[q].segments)].encodingCharacters]

\* line 34: the record the loop of call p is at
CallSegment(p) == calls[p].segments[calls[p].idx]

\* lines 35-59 on the outcome r of the iteration, e the error it returns
stepped(c, r, e) ==
  IF r.errs # {} THEN [c EXCEPT !.err = e, !.result = VNil, !.pc = "returned"]
  ELSE [c EXCEPT !.result = r.val, !.idx = @ + 1]

CallDecodeSegment ==
  \E p \in Callers :
    /\ calls[p].pc = "loop"
    /\ calls[p].idx <= Len(calls[p].segments)
    /\ \E r \in {decodeStep(calls[p].result.m, CallSegment(p), schema)} :
         \E e \in (IF r.errs = {} THEN {NoError} ELSE r.errs) :
           calls' = [calls EXCEPT ![p] = stepped(calls[p], r, e)]
    /\ UNCHANGED <<schema, callVars>>

CallReturn ==
  \E p \in Callers :
    /\ calls[p].pc = "loop"
    /\ calls[p].idx > Len(calls[p].segments)
    /\ calls' = [calls EXCEPT ![p].pc = "returned"]
    /\ UNCHANGED <<schema, callVars>>

\* variant: the entries written are taken out of the tree
marshalledConsumesTree(c, r) ==
  [c EXCEPT !.err = r.err, !.output = IF r.err = NoError THEN r.bytes ELSE <<>>,
            !.v = VMap(<<>>), !.pc = "returned"]

\* schema_marshal.go lines 95-96 and the error returns: the call's results
marshalled(c, r) ==
  [c EXCEPT !.err = r.err, !.output = IF r.err = NoError THEN r.bytes ELSE <<>>,
            !.pc = "returned"]

CallMarshal ==
  \E p \in Callers, sdesc \in BOOLEAN, fdesc \in BOOLEAN, cdesc \in BOOLEAN :
    /\ calls[p].pc = "marshal"
    /\ calls' = [calls EXCEPT ![p] =
                   marshalled(calls[p],
                              MarshalWithSchemaOptions(calls[p].v.m, schema, calls[p].opts,
                                                       sdesc, fdesc, cdesc))]
    /\ UNCHANGED <<schema, callVars>>

\* schema_decode.go lines 11-22 on the outcome r, e the error it returns
multiReturned(c, r, e) ==
  IF r.errs # {} THEN [c EXCEPT !.err = e, !.results = VNil, !.pc = "returned"]
  ELSE [c EXCEPT !.results = r.val, !.pc = "returned"]

CallUnmarshalMulti ==
  \E p \in Callers :
    /\ calls[p].pc = "multi"
    /\ \E r \in {UnmarshalMultiWithSchema(calls[p].data, schema)} :
         \E e \in (IF r.errs = {} THEN {NoError} ELSE r.errs) :
           calls' = [calls EXCEPT ![p] = multiReturned(calls[p], r, e)]
    /\ UNCHANGED <<schema, callVars>>

ConcNext ==
  \/ StartUnmarshal \/ StartMulti \/ StartMarshal
  \/ CallParse \/ CallDecodeSegment \/ CallReturn
  \/ CallMarshal \/ CallUnmarshalMulti

ConcSpec == ConcInit /\ [][ConcNext]_vars

\* ------------------------------------------------------ Timestamp.Unmarshal
\* result holds the receiver's Time, data the text
TimestampInit ==
  /\ schema \in BoolSchemas
  /\ data \in TimestampTexts
  /\ pc = "timestamp"
  /\ segments = <<>>
  /\ idx = 1
  /\ result \in EarlierTimes
  /\ err = NoError
  /\ componentSeparator = ""
  /\ repetitionSeparator = ""
  /\ segMap = <<>>
  /\ opts = DefaultMarshalOptions
  /\ output = <<>>
  /\ lines = <<>>
  /\ merr = NoError
  /\ result2 = VNil
  /\ err2 = NoError
  /\ calls = [p \in Callers |-> IdleCall]
  /\ chunks = <<>>

\* line 105: the error names the text
TimestampError(s) == [kind |-> "unrecognized timestamp format", text |-> s]

\* lines 91-106
Unmarshal ==
  /\ pc = "timestamp"
  /\ \E r \in {TimestampUnmarshal(data)} :
       IF r.ok
       THEN result' = r.v /\ err' = NoError
       ELSE err' = TimestampError(data) /\ UNCHANGED result
  /\ pc' = "unmarshaled"
  /\ UNCHANGED <<calls, chunks, schema, data, segments, idx, decodeVars, encodeVars>>

TimestampNext == Unmarshal

TimestampSpec == TimestampInit /\ [][TimestampNext]_vars

\* ------------------------------------------------------ several-line messages
LinesInit ==
  /\ \E i \in LineInputs : schema = i[1] /\ data = i[2]
  /\ pc = "parse"
  /\ segments = <<>>
  /\ idx = 1
  /\ result = VNil
  /\ err = NoError
  /\ componentSeparator = ""
  /\ repetitionSeparator = ""
  /\ segMap = <<>>
  /\ opts = DefaultMarshalOptions
  /\ output = <<>>
  /\ lines = <<>>
  /\ merr = NoError
  /\ result2 = VNil
  /\ err2 = NoError
  /\ calls = [p \in Callers |-> IdleCall]
  /\ chunks = <<>>

LinesSpec == LinesInit /\ [][Next]_vars

\* ------------------------------------------------------ message streams
\* UnmarshalMultiWithSchema, one step per chunk
MultiInit ==
  /\ schema \in LineSchemas
  /\ data \in StreamTexts
  /\ pc = "split"
  /\ segments = <<>>
  /\ idx = 1
  /\ result = VNil
  /\ err = NoError
  /\ componentSeparator = ""
  /\ repetitionSeparator = ""
  /\ segMap = <<>>
  /\ opts = DefaultMarshalOptions
  /\ output = <<>>
  /\ lines = <<>>
  /\ merr = NoError
  /\ result2 = VNil
  /\ err2 = NoError
  /\ calls = [p \in Callers |-> IdleCall]
  /\ chunks = <<>>

\* schema_decode.go lines 12-13
SplitMessages ==
  /\ pc = "split"
  /\ chunks' = splitMessages(data)
  /\ result' = VSlice(<<>>)
  /\ pc' = "chunks"
  /\ UNCHANGED <<calls, schema, data, segments, idx, err, decodeVars, encodeVars>>

\* schema_decode.go lines 14-20: one iteration of the loop over the chunks
UnmarshalChunk ==
  /\ pc = "chunks" /\ idx <= Len(chunks)
  /\ \E r \in {UnmarshalWithSchema(chunks[idx], schema)} :
       IF r.errs # {}
       THEN /\ \E e \in r.errs : err' = e
            /\ result' = VNil
            /\ pc' = "returned"
            /\ UNCHANGED idx
       ELSE /\ result' = VSlice(Append(result.a, r.val))
            /\ idx' = idx + 1
            /\ UNCHANGED <<err, pc>>
  /\ UNCHANGED <<calls, chunks, schema, data, segments, decodeVars, encodeVars>>

\* schema_decode.go line 21
ReturnResults ==
  /\ pc = "chunks" /\ idx > Len(chunks)
  /\ pc' = "returned"
  /\ UNCHANGED <<calls, chunks, schema, data, segments, idx, result, err, decodeVars, encodeVars>>

MultiNext == SplitMessages \/ UnmarshalChunk \/ ReturnResults

MultiSpec == MultiInit /\ [][MultiNext]_vars

\* ------------------------------------------------------------ bool fields
\* the variables no call has written yet
Untouched ==
  /\ segments = <<>>
  /\ idx = 1
  /\ result = VNil
  /\ err = NoError
  /\ componentSeparator = ""
  /\ repetitionSeparator = ""
  /\ segMap = <<>>
  /\ opts = DefaultMarshalOptions
  /\ output = <<>>
  /\ lines = <<>>
  /\ merr = NoError
  /\ result2 = VNil
  /\ err2 = NoError
  /\ calls = [p \in Callers |-> IdleCall]
  /\ chunks = <<>>

\* UnmarshalWithSchema and MarshalWithSchemaOptions on a line whose field 1
\* is declared bool
BoolInit ==
  /\ schema \in BoolSchemas
  /\ data \in BoolMessages
  /\ pc = "parse"
  /\ Untouched

BoolSpec == BoolInit /\ [][Next]_vars

EncodeSpec == EncodeInit /\ [][EncodeNext]_vars


\* =================================================================== claims
FirstLine == ScanLines(NormalizeLineEndings(data))[1]
HeaderFirst == data # <<>> /\ HasPrefix(FirstLine, MSH) /\ Len(FirstLine) >= 4

\* the record the last successful DecodeSegment step decoded
JustDecoded ==
  pc = "loop" /\ idx > 1 /\ segments[idx - 1].name \in DOMAIN schema
Last == segments[idx - 1]

\* C1: round trip -- encoding a decoded tree with the default separators
\* succeeds and decoding the output gives back the same tree.
C1_RoundTrip ==
  /\ (pc \in {"encoded", "redecoded"} /\ opts = DefaultMarshalOptions => merr = NoError)
  /\ (pc = "redecoded" /\ opts = DefaultMarshalOptions
        => err2 = NoError /\ result2 = result)

\* C2: header self-description -- a first line that is a header is split on
\* its character at index 3, and decoding that segment uses the 1st and 2nd
\* character of the header's second token as component and repetition
\* separator.
C2_HeaderSelfDescription ==
  (HeaderFirst /\ pc = "loop")
    => LET sep == FirstLine[4]
           tokens == Split(FirstLine, sep)
       IN /\ segments[1].fieldSeparator = sep
          /\ segments[1].fields = tokens
          /\ segments[1].encodingCharacters = tokens[2]
          /\ (idx = 2 /\ segments[1].name \in DOMAIN schema)
               => /\ (Len(tokens[2]) >= 1 => componentSeparator = tokens[2][1])
                  /\ (Len(tokens[2]) >= 2 => repetitionSeparator = tokens[2][2])

C2_Witness ==
  /\ HasPrefix(data, MSH \o <<"|", "~", "^", "|">>)
  /\ pc = "loop" /\ idx = 2
  /\ componentSeparator = "~" /\ repetitionSeparator = "^"

\* the token the format assigns to position n of a record: the separator
\* itself for MSH-1, split token n-1 for MSH, split token n otherwise
\* (token 0 is the name); empty when the line has no such token
TokenAt(seg, j) == IF j + 1 <= Len(seg.fields) THEN seg.fields[j + 1] ELSE <<>>
PositionText(seg, n) ==
  IF seg.name = MSH /\ n = 1 THEN <<seg.fieldSeparator>>
  ELSE IF seg.name = MSH THEN TokenAt(seg, n - 1)
  ELSE TokenAt(seg, n)

\* C3: position resolution -- a field declared at N holds the field separator
\* (MSH, N = 1), split token N-1 (MSH, N >= 2) or split token N (other segments).
C3_PositionResolution ==
  JustDecoded =>
    \A f \in DOMAIN schema[Last.name].Fields :
      LET F == schema[Last.name].Fields[f]
          text == PositionText(Last, F.Index)
      IN /\ (f \in DOMAIN segMap => text # <<>>)
         /\ (F.Type = "string" /\ text # <<>>
               => f \in DOMAIN segMap /\ segMap[f] = VStr(text))

C3_Witness ==
  /\ JustDecoded /\ Last.name = MSH
  /\ segMap = ("fieldSeparator" :> VStr(<<"#">>))
                @@ ("encodingCharacters" :> VStr(<<"^", "~", "\\", "&">>))
                @@ ("app" :> VStr(<<"a">>))


\* placeholders the decode engine must never store
IsPlaceholder(v) == v = VNil \/ v = VStr(<<>>) \/ v = VMap(<<>>)

\* no key of a field-value mapping (or of an object in it, or of an object
\* element of an array in it) maps to a placeholder
CleanObject(v) == \A c \in DOMAIN v.m : ~IsPlaceholder(v.m[c])
CleanMapping(m) ==
  \A f \in DOMAIN m :
    /\ ~IsPlaceholder(m[f])
    /\ (m[f].k = "map" => CleanObject(m[f]))
    /\ (m[f].k = "slice" =>
          \A j \in 1..Len(m[f].a) : m[f].a[j].k = "map" => CleanObject(m[f].a[j]))
CleanTree(t) ==
  \A n \in DOMAIN t.m :
    IF t.m[n].k = "slice"
    THEN \A j \in 1..Len(t.m[n].a) : CleanMapping(t.m[n].a[j].m)
    ELSE CleanMapping(t.m[n].m)

\* text of component p of an object field's raw text
ComponentText(raw, cs, p) ==
  LET cts == Split(raw, cs) IN IF p <= Len(cts) THEN cts[p] ELSE <<>>

\* C4: omission on empty -- no field or component key of a decoded tree maps
\* to a placeholder; a key is present only where the resolved text is
\* non-empty, and an object none of whose components is non-empty is absent.
C4_OmissionOnEmpty ==
  /\ (pc \in {"loop", "done"} /\ result # VNil => CleanTree(result))
  /\ JustDecoded =>
       \A f \in DOMAIN schema[Last.name].Fields :
         LET F == schema[Last.name].Fields[f]
             text == PositionText(Last, F.Index)
         IN /\ (text = <<>> => f \notin DOMAIN segMap)
            /\ (F.Type = "object" =>
                  /\ (f \in DOMAIN segMap <=>
                        \E c \in DOMAIN F.Components :
                          ComponentText(text, componentSeparator, F.Components[c].Index) # <<>>)
                  /\ (f \in DOMAIN segMap =>
                        \A c \in DOMAIN F.Components :
                          c \in DOMAIN segMap[f].m <=>
                            ComponentText(text, componentSeparator, F.Components[c].Index) # <<>>))

C4_Witness ==
  /\ JustDecoded
  /\ Last.fields = <<PID, <<"^">>, <<>>, <<"a">>>>
  /\ schema[PID].Fields["f"].Type = "object"
  /\ segMap = ("g" :> VStr(<<"a">>))

\* text that a scalar type refuses
Parses(raw, typ) ==
  CASE typ = "int" -> ParseInt(raw).ok
    [] typ = "float" -> ParseFloat(raw).ok
    [] typ = "bool" -> ToUpper(raw) \in {<<"Y">>, <<"N">>, <<"1">>, <<"0">>,
                                         <<"T", "R", "U", "E">>, <<"F", "A", "L", "S", "E">>}
    [] typ = "timestamp" -> TimestampUnmarshal(raw).ok
    [] OTHER -> TRUE

\* [component position, text] of every component of an object text that fails
BadComponents(raw, desc, cs) ==
  {[c |-> desc.Components[n].Index,
    v |-> ComponentText(raw, cs, desc.Components[n].Index)] :
     n \in {x \in DOMAIN desc.Components :
              LET t == ComponentText(raw, cs, desc.Components[x].Index)
              IN t # <<>> /\ ~Parses(t, desc.Components[x].Type)}}

BadItems(raw, desc, cs) ==
  IF desc.Type = "object" THEN BadComponents(raw, desc, cs)
  ELSE IF raw # <<>> /\ ~Parses(raw, desc.Type) THEN {[c |-> 0, v |-> raw]} ELSE {}

\* every coercion failure of a record: field position, component position, text
Offending(seg, segSchema) ==
  LET cs == IF seg.encodingCharacters = <<>> THEN "^" ELSE seg.encodingCharacters[1]
      rs == IF Len(seg.encodingCharacters) < 2 THEN "" ELSE seg.encodingCharacters[2]
      reps(raw) == IF rs = "" THEN <<raw>> ELSE Split(raw, rs)
      bad(F) ==
        LET raw == PositionText(seg, F.Index)
        IN IF F.Type = "array"
           THEN UNION {BadItems(reps(raw)[j], F.Items, cs) : j \in 1..Len(reps(raw))}
           ELSE BadItems(raw, F, cs)
  IN UNION {{[f |-> segSchema.Fields[n].Index, c |-> b.c, v |-> b.v] :
               b \in bad(segSchema.Fields[n])} : n \in DOMAIN segSchema.Fields}

\* C5: a coercion failure aborts the decode with a nil tree and a FieldError
\* naming the segment, the field position, the component position (0 outside
\* an object) and the offending text.
C5_CoercionFailureAborts ==
  /\ (err # NoError => result = VNil)
  /\ (pc = "done" /\ err.kind = "FieldError" =>
        /\ err.Segment = segments[idx].name
        /\ [f |-> err.Field, c |-> err.Component, v |-> err.Value]
             \in Offending(segments[idx], schema[segments[idx].name]))
  /\ (JustDecoded => Offending(Last, schema[Last.name]) = {})

C5_Witness ==
  /\ pc = "done"
  /\ result = VNil
  /\ err = FieldError(PID, 1, 2, <<"a">>, "ErrInvalidIntValue")

\* C6: unknown-segment tolerance -- the tree's keys are segment names of the
\* schema, and a record whose name is not in the schema changes neither the
\* tree nor the error.
C6_KeysInSchema ==
  pc \in {"loop", "done"} /\ result # VNil => DOMAIN result.m \subseteq DOMAIN schema

C6_UnknownSegmentTolerance ==
  /\ []C6_KeysInSchema
  /\ [][(pc = "loop" /\ idx <= Len(segments) /\ segments[idx].name \notin DOMAIN schema)
          => (result' = result /\ err' = err /\ pc' = "loop")]_vars

C6_Witness ==
  /\ pc = "done" /\ err = NoError
  /\ \E j \in 1..Len(segments) : segments[j].name = ZZZ
  /\ PID \in DOMAIN result.m


\* records of segment n, in line order, and their decoded mappings
Occurrences(n) == SelectSeq(segments, LAMBDA sg : sg.name = n)
DecodedMappings(n) ==
  LET occ == Occurrences(n)
  IN [j \in 1..Len(occ) |-> VMap(decodeSegmentWithSchema(occ[j], schema[n]).val)]

RepeatingSegments == {n \in DOMAIN schema : schema[n].Repeat}

\* C7 as stated: the list under a repeating segment's key holds the decoded
\* mapping of every occurrence, the i-th element from the i-th occurrence.
C7_EveryOccurrenceAppended ==
  (pc = "done" /\ err = NoError) =>
    \A n \in RepeatingSegments :
      Occurrences(n) # <<>> =>
        n \in DOMAIN result.m /\ result.m[n] = VSlice(DecodedMappings(n))

\* C7 amended: the list holds, in line order, the decoded mappings of the
\* occurrences that have at least one non-empty declared field (the i-th
\* element comes from the i-th such occurrence); the key is absent when
\* there is none.
C7_RepeatingAccumulation ==
  (pc = "done" /\ err = NoError) =>
    \A n \in RepeatingSegments :
      LET kept == SelectSeq(DecodedMappings(n), LAMBDA v : v # VMap(<<>>))
      IN IF kept = <<>> THEN n \notin DOMAIN result.m
         ELSE n \in DOMAIN result.m /\ result.m[n] = VSlice(kept)

C7_Witness ==
  /\ pc = "done" /\ err = NoError
  /\ OBX \in DOMAIN result.m
  /\ result.m[OBX] = VSlice(<<VMap("f" :> VStr(<<"a">>)), VMap("f" :> VStr(<<"1">>))>>)

\* repetitions of an array field's text
Repetitions(raw, rs) == IF rs = "" THEN <<raw>> ELSE Split(raw, rs)

\* C8: array decoding -- the decoded array holds, in source order, one
\* element per non-empty repetition, and no element is a placeholder.
C8_ArrayDecoding ==
  JustDecoded =>
    \A f \in DOMAIN schema[Last.name].Fields :
      LET F == schema[Last.name].Fields[f]
          text == PositionText(Last, F.Index)
          kept == SelectSeq(Repetitions(text, repetitionSeparator), LAMBDA r : r # <<>>)
      IN (F.Type = "array" /\ f \in DOMAIN segMap) =>
           /\ segMap[f].k = "slice"
           /\ Len(segMap[f].a) = Len(kept)
           /\ \A j \in 1..Len(kept) :
                /\ ~IsPlaceholder(segMap[f].a[j])
                /\ segMap[f].a[j] =
                     (IF F.Items.Type = "object"
                      THEN decodeObjectField(Last.name, F.Index, kept[j], F.Items,
                                             componentSeparator).val
                      ELSE coerceValue(Last.name, F.Index, 0, kept[j], F.Items.Type).val)


\* lines written for segment n and the mappings the tree holds for it
LinesOf(n) == SelectSeq(lines, LAMBDA l : HasPrefix(l, n))
TreeMappings(n) ==
  IF n \notin DOMAIN result.m THEN <<>>
  ELSE IF schema[n].Repeat THEN [j \in 1..Len(result.m[n].a) |-> result.m[n].a[j].m]
  ELSE <<result.m[n].m>>

\* renderings of a tree value under a descriptor (the order in which a map
\* of components is ranged over may matter)
Renderings(v, F) ==
  {marshalValueFromMap(v, F, opts.ComponentSeparator, opts.RepetitionSeparator, cd).str :
     cd \in BOOLEAN}

\* what may stand at position p of a line for mapping m: nothing when no
\* field is declared at p; otherwise, for a field declared at p, its
\* rendering, or nothing when m has no value for it
AllowedAt(segSchema, m, p) ==
  LET at == {f \in DOMAIN segSchema.Fields : segSchema.Fields[f].Index = p}
  IN IF at = {} THEN {<<>>}
     ELSE UNION {IF f \in DOMAIN m THEN Renderings(m[f], segSchema.Fields[f]) ELSE {<<>>} :
                   f \in at}

Drop(q, n) == SubSeq(q, n + 1, Len(q))

\* rest is, for each position from p to maxIdx, the separator and then an
\* allowed text
RECURSIVE AlignedFrom(_, _, _, _, _)
AlignedFrom(rest, segSchema, m, p, maxIdx) ==
  IF p > maxIdx THEN rest = <<>>
  ELSE \E t \in AllowedAt(segSchema, m, p) :
         /\ HasPrefix(rest, <<opts.FieldSeparator>> \o t)
         /\ AlignedFrom(Drop(rest, 1 + Len(t)), segSchema, m, p + 1, maxIdx)

Aligned(line, n, m) ==
  /\ HasPrefix(line, n)
  /\ AlignedFrom(Drop(line, Len(n)), schema[n], m, 1, MaxIndex(schema[n].Fields))

TokenAligned(line, n, m) ==
  LET tokens == Split(line, opts.FieldSeparator)
      maxIdx == MaxIndex(schema[n].Fields)
  IN /\ Len(tokens) = maxIdx + 1
     /\ \A p \in 1..maxIdx : tokens[p + 1] \in AllowedAt(schema[n], m, p)

Encoded == pc \in {"encoded", "redecoded"} /\ merr = NoError

\* C9 as stated: every non-header line is the name followed, for each
\* position up to the maximum declared one, by the separator and the
\* rendering of the field declared there (or nothing), and the value
\* declared at p is token p of the line.
C9_ValueIsTokenP ==
  Encoded =>
    \A n \in DOMAIN schema \ {MSH} :
      /\ Len(LinesOf(n)) = Len(TreeMappings(n))
      /\ \A j \in 1..Len(LinesOf(n)) :
           /\ Aligned(LinesOf(n)[j], n, TreeMappings(n)[j])
           /\ TokenAligned(LinesOf(n)[j], n, TreeMappings(n)[j])

NoSeparatorInside(line, n, m) ==
  \A p \in 1..MaxIndex(schema[n].Fields) :
    \A t \in AllowedAt(schema[n], m, p) :
      \A q \in 1..Len(t) : t[q] # opts.FieldSeparator

\* C9 amended: the line has that shape, the field rendered at p being one of
\* the fields declared at p; the rendering is token p of the line provided no
\* rendering contains the field separator.
C9_FieldAlignment ==
  Encoded =>
    \A n \in DOMAIN schema \ {MSH} :
      /\ Len(LinesOf(n)) = Len(TreeMappings(n))
      /\ \A j \in 1..Len(LinesOf(n)) :
           /\ Aligned(LinesOf(n)[j], n, TreeMappings(n)[j])
           /\ NoSeparatorInside(LinesOf(n)[j], n, TreeMappings(n)[j])
                => TokenAligned(LinesOf(n)[j], n, TreeMappings(n)[j])

C9_Witness ==
  /\ Encoded
  /\ opts = DefaultMarshalOptions
  /\ result.m = (PID :> VMap(Map2("f", VInt(11), "g", VStr(<<"a">>))))
  /\ lines = <<PID \o <<"|", "1", "1", "|", "|", "a">>>>

MSHPrefix == MSH \o <<opts.FieldSeparator>>

\* C10 as stated: an MSH line is the name, the options' field separator and
\* the four options characters, whatever the tree holds at positions 1 and 2.
C10_HeaderAlwaysHasEncodingChars ==
  (Encoded /\ MSH \in DOMAIN result.m) =>
    /\ Len(LinesOf(MSH)) = 1
    /\ HasPrefix(LinesOf(MSH)[1], MSHPrefix \o EncodingChars(opts))

\* C10 amended: position 2 is written only when the maximum declared MSH
\* position is at least 2; otherwise the line ends after position 1.
C10_HeaderSpecialCases ==
  (Encoded /\ MSH \in DOMAIN result.m) =>
    /\ Len(LinesOf(MSH)) = 1
    /\ LET line == LinesOf(MSH)[1]
           maxIdx == MaxIndex(schema[MSH].Fields)
           head == MSHPrefix \o EncodingChars(opts)
       IN /\ HasPrefix(line, MSHPrefix)
          /\ (maxIdx = 1 => line = MSHPrefix)
          /\ (maxIdx >= 2 =>
                /\ HasPrefix(line, head)
                /\ (maxIdx = 2 => line = head)
                /\ (maxIdx > 2 => Len(line) > Len(head)
                                    /\ line[Len(head) + 1] = opts.FieldSeparator))

C10_Witness ==
  /\ Encoded
  /\ opts = DefaultMarshalOptions
  /\ MSH \in DOMAIN result.m
  /\ "encodingCharacters" \in DOMAIN result.m[MSH].m
  /\ result.m[MSH].m["encodingCharacters"] = VStr(<<"~", "^">>)
  /\ lines[1] = MSH \o <<"|", "^", "~", "\\", "&", "|", "a">>


\* -------------------------------------------------- object encoding (C11, C12)
\* the object handed to the encoder as PID.f, its descriptor's components
\* and the text written for it: token 1 of the PID line
ObjectValue == result.m[PID].m["f"].m
ObjectComps == schema[PID].Fields["f"].Components
ObjectText == Split(LinesOf(PID)[1], opts.FieldSeparator)[2]
ObjectEncoded ==
  /\ Encoded /\ PID \in DOMAIN result.m
  /\ schema[PID].Fields["f"].Type = "object"
  /\ "f" \in DOMAIN result.m[PID].m /\ result.m[PID].m["f"].k = "map"

Rendering(c) == marshalScalarValue(ObjectValue[c], ObjectComps[c].Type)

OnlyFifthSet ==
  /\ ObjectEncoded /\ ObjectComps = PosComps
  /\ DOMAIN ObjectValue = {"e"} /\ Rendering("e") # <<>>

Seps(n) == [i \in 1..n |-> opts.ComponentSeparator]

\* C11 as stated: with components declared at 1, 3, 5 and only the one at 5
\* set, the text is two component separators and then the value.
C11_TwoSeparators == OnlyFifthSet => ObjectText = Seps(2) \o Rendering("e")

\* C11: positional fidelity for objects -- with components declared at 1, 3,
\* 5 and only the one at 5 set, the text is four component separators (the
\* empty slots 1 to 4) and then the value, with nothing after it.
C11_PositionalFidelity == OnlyFifthSet => ObjectText = Seps(4) \o Rendering("e")

C11_Witness ==
  /\ OnlyFifthSet /\ opts = DefaultMarshalOptions
  /\ ObjectValue["e"] = VStr(<<"a">>)
  /\ lines = <<PID \o <<"|", "^", "^", "^", "^", "a", "|">> >>

ObjectTokens == Split(ObjectText, opts.ComponentSeparator)
ObjectToken(p) == IF p <= Len(ObjectTokens) THEN ObjectTokens[p] ELSE <<>>
EndsWithSeparator ==
  ObjectText # <<>> /\ ObjectText[Len(ObjectText)] = opts.ComponentSeparator

\* C12 as stated: the text never ends with the component separator and every
\* component set to a non-empty value at position p is token p.
C12_EverySetComponentIsTokenP ==
  ObjectEncoded =>
    /\ ~EndsWithSeparator
    /\ \A c \in DOMAIN ObjectValue :
         Rendering(c) # <<>> => ObjectToken(ObjectComps[c].Index) = Rendering(c)

SetAt(p) == {c \in DOMAIN ObjectValue : ObjectComps[c].Index = p}
NoSeparatorInComponents ==
  \A c \in DOMAIN ObjectValue :
    \A i \in 1..Len(Rendering(c)) : Rendering(c)[i] # opts.ComponentSeparator

\* C12: object encoding trims only trailing empties -- when no rendered
\* component holds the component separator, the text does not end with the
\* separator, has no token beyond the highest declared position, and token p
\* is empty when no component is set at p and otherwise the rendering of a
\* component set at p (of the only one, when positions are not shared).
C12_TrimsOnlyTrailing ==
  (ObjectEncoded /\ NoSeparatorInComponents) =>
    /\ ~EndsWithSeparator
    /\ Len(ObjectTokens) <= MaxIndex(ObjectComps)
    /\ \A p \in 1..MaxIndex(ObjectComps) :
         IF SetAt(p) = {} THEN ObjectToken(p) = <<>>
         ELSE ObjectToken(p) \in {Rendering(c) : c \in SetAt(p)}

C12_Witness ==
  /\ ObjectEncoded /\ ObjectComps = PosComps /\ opts = DefaultMarshalOptions
  /\ ObjectValue = Map2("a", VStr(<<"a">>), "e", VStr(<<"a">>))
  /\ ObjectText = <<"a", "^", "^", "^", "^", "a">>

\* ------------------------------------------------- encoder output order (C13, C14)
\* C13: encode is deterministic -- a call to MarshalWithSchemaOptions returns
\* the bytes (or the failure) that every other call on the same tree, schema
\* and options returns, whatever order the maps are enumerated in.
C13_EncodeIsDeterministic ==
  [][(pc = "done" /\ pc' = "encoded") =>
       \A sd \in BOOLEAN, fd \in BOOLEAN, cd \in BOOLEAN :
         \E r \in {MarshalWithSchemaOptions(result.m, schema, opts', sd, fd, cd)} :
           /\ (r.err = NoError) = (merr' = NoError)
           /\ r.err = NoError => r.bytes = output']_vars

\* C14: header first -- when the tree has an MSH entry that is emitted, the
\* MSH line is the first line of the output and the only MSH line, for every
\* order in which the schema's segments are enumerated.
C14_HeaderFirst ==
  (Encoded /\ MSH \in DOMAIN result.m) =>
    /\ lines # <<>>
    /\ HasPrefix(lines[1], MSHPrefix)
    /\ \A j \in 2..Len(lines) : ~HasPrefix(lines[j], MSH)
    /\ HasPrefix(output, MSHPrefix)

\* the header is followed by the OBX line and then the PID line
C14_Witness ==
  /\ Encoded /\ DOMAIN result.m = {MSH, PID, OBX}
  /\ Len(lines) = 3
  /\ HasPrefix(lines[1], MSHPrefix)
  /\ HasPrefix(lines[2], OBX)
  /\ HasPrefix(lines[3], PID)

\* ------------------------------------------------------ schema validity (C15)
\* the conditions of the claim, on a definition
RECURSIVE WellFormedField(_, _)
WellFormedField(f, needIndex) ==
  /\ f # NilField
  /\ needIndex => f.Index > 0
  /\ f.Type \in validSchemaTypes \cup {""}
  /\ f.Type = "object" =>
       /\ DOMAIN f.Components # {}
       /\ \A c \in DOMAIN f.Components : WellFormedField(f.Components[c], TRUE)
  /\ f.Type = "array" => f.Items # NilField /\ WellFormedField(f.Items, FALSE)

WellFormed(s) ==
  /\ DOMAIN s # {}
  /\ \A n \in DOMAIN s :
       /\ s[n] # NilSegment
       /\ DOMAIN s[n].Fields # {}
       /\ \A f \in DOMAIN s[n].Fields : WellFormedField(s[n].Fields[f], TRUE)

\* a well-formed definition with every omitted type read as string
RECURSIVE DefaultedField(_)
DefaultedField(f) ==
  IF f.Type = "object"
  THEN [f EXCEPT !.Components = [c \in DOMAIN f.Components |-> DefaultedField(f.Components[c])]]
  ELSE IF f.Type = "array" THEN [f EXCEPT !.Items = DefaultedField(f.Items)]
  ELSE IF f.Type = "" THEN [f EXCEPT !.Type = "string"]
  ELSE f

Defaulted(s) ==
  [n \in DOMAIN s |->
     [s[n] EXCEPT !.Fields = [f \in DOMAIN s[n].Fields |-> DefaultedField(s[n].Fields[f])]]]

\* C15: schema validity -- ParseSchema returns a schema only for a definition
\* with at least one segment, at least one field in every segment, an index
\* above 0 on every field and component, one of the seven types (or none,
\* read as string) on every descriptor, at least one component in every
\* object and an items descriptor (index not needed) in every array; the
\* schema returned is the definition with omitted types set to string, and
\* every other definition is rejected with a SchemaError and no schema.
C15_SchemaValidity ==
  [][pc = "schema" =>
       IF WellFormed(schema)
       THEN pc' = "validated" /\ err' = NoError /\ schema' = Defaulted(schema)
       ELSE pc' = "rejected" /\ err'.kind = "SchemaError" /\ schema' = NilSchema]_vars

\* an array of objects whose items carry no index is accepted, its
\* component's omitted type defaulted
C15_Witness ==
  /\ pc = "validated"
  /\ schema = (PID :> Segment("f" :> Arr(1, Obj(0, "a" :> Leaf(1, "string"))), FALSE))

\* a component without an index is rejected
C15_Rejected ==
  /\ pc = "rejected" /\ schema = NilSchema
  /\ err = SchemaError(<<"segments", ".">> \o PID \o <<".", "fields", ".", "f", ".", "components", ".", "a">>,
                       "index is required and must be > 0, got %d", <<"0">>)

\* ------------------------------------------------- tokenizer failures (C16, C17)
\* the lines of the message and, for line i, the field separator in force:
\* the fourth character of the nearest header line at or above it
DataLines == ScanLines(NormalizeLineEndings(data))

RECURSIVE SeparatorAt(_, _)
SeparatorAt(ls, i) ==
  IF i = 0 THEN DefaultFieldSeparator
  ELSE IF HasPrefix(ls[i], MSH) /\ Len(ls[i]) > 3 THEN ls[i][4]
  ELSE SeparatorAt(ls, i - 1)

EmptyFirstToken(ls, i) == ls[i] = <<>> \/ ls[i][1] = SeparatorAt(ls, i)

Tokenized == pc \in {"loop", "done", "encoded", "redecoded"}

\* C16: blank lines are skipped -- a message whose only lines with an empty
\* first token are blank lines is tokenized without ErrSegmentInvalid.
C16_BlankLinesSkipped ==
  (/\ Tokenized
   /\ \E i \in 1..Len(DataLines) : DataLines[i] = <<>>
   /\ \A i \in 1..Len(DataLines) : EmptyFirstToken(DataLines, i) => DataLines[i] = <<>>)
  => err # ErrSegmentInvalid

\* C17: malformed segment -- when some line of the message has an empty
\* first token, parseMessage fails with ErrSegmentInvalid and returns no
\* record, also none for the lines before it, and UnmarshalWithSchema returns
\* no tree and that error.
C17_MalformedSegment ==
  (Tokenized /\ \E i \in 1..Len(DataLines) : EmptyFirstToken(DataLines, i)) =>
    /\ pc = "done"
    /\ err = ErrSegmentInvalid
    /\ segments = <<>>
    /\ result = VNil

\* a valid line followed by a line that starts with the separator
C17_Witness ==
  /\ pc = "done" /\ err = ErrSegmentInvalid /\ segments = <<>> /\ result = VNil
  /\ DataLines = <<PID \o <<"|", "a">>, <<"|", "a">> >>

\* ------------------------------------------------ array/scalar boundary (C20)
\* the coercion of a whole text under an items descriptor
WholeText(name, F, text, cs) ==
  IF F.Items.Type = "object" THEN decodeObjectField(name, F.Index, text, F.Items, cs).val
  ELSE IF F.Items.Type = "string" THEN VStr(text)
  ELSE coerceValue(name, F.Index, 0, text, F.Items.Type).val

\* C20: array/scalar boundary -- when the encoding characters in force for a
\* segment are fewer than two, a non-empty array field is not split: it
\* decodes to an array of one element, the coercion of the whole field text.
C20_ArrayNotSplit ==
  (JustDecoded /\ Len(Last.encodingCharacters) < 2) =>
    \A f \in DOMAIN schema[Last.name].Fields :
      LET F == schema[Last.name].Fields[f]
          text == PositionText(Last, F.Index)
      IN (F.Type = "array" /\ text # <<>>) =>
           /\ f \in DOMAIN segMap
           /\ segMap[f] = VSlice(<<WholeText(Last.name, F, text, componentSeparator)>>)

\* under the header MSH|^|a the text a~ of PID.f stays one element
C20_Witness ==
  /\ JustDecoded /\ Last.name = PID /\ Last.encodingCharacters = <<"^">>
  /\ schema[PID].Fields["f"] = Arr(1, ItemLeaf("string"))
  /\ "f" \in DOMAIN segMap
  /\ segMap["f"] = VSlice(<<VStr(<<"a", "~">>)>>)

\* ------------------------------------------ read-only schema, side-by-side calls
\* C18: the schema is read-only after validation -- no step of an
\* UnmarshalWithSchema, UnmarshalMultiWithSchema or MarshalWithSchemaOptions
\* call changes the schema, and a MarshalWithSchemaOptions call returns with
\* its input tree as it was handed in.
C18_SchemaReadOnly ==
  [][/\ schema' = schema
     /\ \A p \in Callers : calls[p].pc = "marshal" => calls'[p].v = calls[p].v]_vars

\* a multi-message decode and an encode have both returned
C18_Witness ==
  /\ schema \in ConcSchemas
  /\ calls[1].op = "multi" /\ calls[1].pc = "returned"
  /\ calls[1].results.k = "slice" /\ Len(calls[1].results.a) = 2
  /\ calls[2].op = "marshal" /\ calls[2].pc = "returned"
  /\ calls[2].v = VMap(PID :> VMap("f" :> VInt(1)))
  /\ calls[2].output = PID \o <<"|", "1", "|", "|">>

\* what an UnmarshalWithSchema call that runs alone has done at each of its
\* positions, and what it returns
UnmarshalAlone(c, s) ==
  \E p \in {parseMessage(c.data)} :
    CASE c.pc = "parse" -> TRUE
      [] c.pc = "loop" ->
           /\ p.err = NoError /\ c.segments = p.lines /\ c.err = NoError
           /\ \E r \in {decodeAll(Ok(VMap(<<>>)), SubSeq(p.lines, 1, c.idx - 1), s)} :
                r.errs = {} /\ c.result = r.val
      [] OTHER ->
           \E r \in {decodeLines(p, s)} :
             IF c.err = NoError THEN r.errs = {} /\ c.result = r.val
             ELSE c.err \in r.errs /\ c.result = VNil

\* what a MarshalWithSchemaOptions call that runs alone returns, under some
\* order of the maps
MarshalAlone(c, s) ==
  c.pc = "returned" =>
    \E sd \in BOOLEAN, fd \in BOOLEAN, cd \in BOOLEAN :
      \E r \in {MarshalWithSchemaOptions(c.v.m, s, c.opts, sd, fd, cd)} :
        c.err = r.err /\ c.output = (IF r.err = NoError THEN r.bytes ELSE <<>>)

AsAlone(c, s) ==
  CASE c.op = "unmarshal" -> UnmarshalAlone(c, s)
    [] c.op = "marshal" -> MarshalAlone(c, s)
    [] OTHER -> TRUE

\* C19: concurrent calls are independent -- in every interleaving of the
\* steps of UnmarshalWithSchema and MarshalWithSchemaOptions calls on one
\* schema, a step changes the state of one call only and leaves the schema,
\* and every call is where it would be, and returns what it would return,
\* had it run alone.
C19_ConcurrentCallsIndependent ==
  [][/\ schema' = schema
     /\ \E p \in Callers : \A q \in Callers \ {p} : calls'[q] = calls[q]
     /\ \A p \in Callers : AsAlone(calls'[p], schema')]_vars

\* a decode that read its separators from the header ~^ has returned while
\* another decode, under the default separators, is between two records
C19_Witness ==
  /\ calls[1].op = "unmarshal" /\ calls[1].pc = "returned" /\ calls[1].err = NoError
  /\ calls[1].segments # <<>>
  /\ calls[1].segments[1].encodingCharacters = <<"~", "^">>
  /\ calls[2].op = "unmarshal" /\ calls[2].pc = "loop" /\ calls[2].idx = 2
  /\ Len(calls[2].segments) = 3

\* ----------------------------------------------------- bool acceptance (C21)
\* the text of field 1 of the message's line, once the line has been decoded
BoolText == PositionText(segments[1], 1)
BoolDecoded == pc \in {"loop", "done", "encoded", "redecoded"} /\ segments # <<>>
                 /\ ~(pc = "loop" /\ idx = 1)
YesTexts == {<<"Y">>, <<"T", "R", "U", "E">>, <<"1">>}
NoTexts == {<<"N">>, <<"F", "A", "L", "S", "E">>, <<"0">>}

\* the value the tree holds for the field
BoolValue ==
  IF segments[1].name = PID THEN result.m[PID].m["f"] ELSE result.m[OBX].a[1].m["f"]

\* the text written for the field
BoolToken == Split(lines[1], opts.FieldSeparator)[2]

\* C21: bool acceptance set -- a non-empty text decodes to true exactly when
\* its upper-cased form is Y, TRUE or 1, to false exactly when it is N, FALSE
\* or 0, and any other text fails with a FieldError wrapping
\* ErrInvalidBooleanValue; true is written as Y and false as N, and the text
\* written coerces back to the same bool.
C21_BoolAcceptance ==
  /\ BoolDecoded =>
       IF ToUpper(BoolText) \in YesTexts
       THEN err = NoError /\ BoolValue = VBool(TRUE)
       ELSE IF ToUpper(BoolText) \in NoTexts
       THEN err = NoError /\ BoolValue = VBool(FALSE)
       ELSE /\ pc = "done" /\ result = VNil
            /\ err = FieldError(segments[1].name, 1, 0, BoolText, "ErrInvalidBooleanValue")
  /\ Encoded =>
       /\ BoolToken = (IF BoolValue.b THEN <<"Y">> ELSE <<"N">>)
       /\ coerceValue(segments[1].name, 1, 0, BoolToken, "bool") = Ok(BoolValue)
  /\ (pc = "redecoded" /\ opts = DefaultMarshalOptions) => err2 = NoError /\ result2 = result

\* tRuE was decoded to true, written as Y and decoded again
C21_Witness ==
  /\ pc = "redecoded" /\ opts = DefaultMarshalOptions
  /\ BoolText = <<"t", "R", "u", "E">>
  /\ BoolValue = VBool(TRUE)
  /\ BoolToken = <<"Y">>
  /\ result2 = result

\* --------------------------------------------------- timestamp parsing (C22)
\* the layouts, by position in the list, that parse the whole text
Matching(s) == {i \in 1..Len(timestampLayouts) : parseLayout(s, timestampLayouts[i]).ok}

\* C22: timestamp parsing -- Timestamp.Unmarshal sets the zero timestamp and
\* returns no error for the empty text; for any other text it sets the parse
\* of the first of the eleven layouts, in their listed order, that parses
\* the whole text; when none does it returns an error that carries the text
\* and leaves the receiver as it was.
C22_TimestampParsing ==
  [][pc = "timestamp" =>
       IF data = <<>> THEN result' = ZeroTime /\ err' = NoError
       ELSE IF Matching(data) = {} THEN err' = TimestampError(data) /\ result' = result
       ELSE /\ err' = NoError
            /\ \E i \in Matching(data) :
                 /\ \A j \in 1..(i - 1) : ~parseLayout(data, timestampLayouts[j]).ok
                 /\ result' = parseLayout(data, timestampLayouts[i]).v]_vars

\* a text with a four-digit fraction and the zone +0700 is parsed by the
\* first layout, which reads the zone
C22_Witness ==
  /\ pc = "unmarshaled" /\ err = NoError
  /\ data = <<"2", "0", "2", "4", "0", "2", "2", "9", "1", "3", "0", "5", "5", "9",
              ".", "1", "2", "3", "4", "+", "0", "7", "0", "0">>
  /\ result = [VTime(2024, 2, 29, 13, 5, 59) EXCEPT !.nsec = 123400000, !.off = 420]

\* a text no layout parses leaves the earlier value
C22_Unparsed ==
  /\ pc = "unmarshaled" /\ err = TimestampError(data)
  /\ data = <<"2", "0", "2", "3", "0", "2", "2", "9">>
  /\ result = VTime(1999, 12, 31, 23, 59, 59)

\* ------------------------------------------- separators across lines (C23)
\* the encoding characters in force for line i: the second token of the
\* nearest header line at or above it
RECURSIVE EncodingAt(_, _)
EncodingAt(ls, i) ==
  IF i = 0 THEN DefaultEncodingCharacters
  ELSE IF HasPrefix(ls[i], MSH) /\ Len(ls[i]) > 3 THEN Split(ls[i], ls[i][4])[2]
  ELSE EncodingAt(ls, i - 1)

\* C23: active separators persist across lines -- in the records parseMessage
\* returns, record i carries the character at index 3 of the nearest line at
\* or above line i that starts with MSH and has more than 3 characters, or |
\* when there is none, and the second token of that line as its encoding
\* characters, or ^~\& when there is none.
C23_SeparatorsPersist ==
  (Tokenized /\ err # ErrSegmentInvalid) =>
    /\ Len(segments) = Len(DataLines)
    /\ \A i \in 1..Len(segments) :
         /\ segments[i].fieldSeparator = SeparatorAt(DataLines, i)
         /\ segments[i].encodingCharacters = EncodingAt(DataLines, i)

\* a second header changes the separators for the line after it
C23_Witness ==
  /\ Tokenized /\ Len(segments) = 3
  /\ DataLines = <<MSH \o <<"|", "^", "~", "\\", "&", "|", "a">>, HashHeader, PID \o <<"#", "1">> >>
  /\ segments[1].fieldSeparator = "|"
  /\ segments[1].encodingCharacters = <<"^", "~", "\\", "&">>
  /\ segments[3].fieldSeparator = "#"
  /\ segments[3].encodingCharacters = <<"~", "^">>
  /\ segments[3].name = PID

\* ------------------------------------------------- message splitting (C24)
Blank(l) == \A k \in 1..Len(l) : l[k] \in Whitespace

InputLines == Split(NormalizeLineEndings(data), LF)

NonBlank(l) == ~Blank(l)

RECURSIVE ChunkLines(_)
ChunkLines(cs) ==
  IF cs = <<>> THEN <<>> ELSE Split(Head(cs), LF) \o ChunkLines(Tail(cs))

HeaderOnlyFirst(chunk) ==
  \A j \in 2..Len(Split(chunk, LF)) : ~HasPrefix(TrimSpace(Split(chunk, LF)[j]), MSH)

\* C24: message splitting is a partition -- every chunk of splitMessages is
\* non-empty, the lines of the chunks in order are exactly the non-blank lines
\* of the input in order, a line that starts with MSH after trimming is only
\* ever the first line of its chunk, and UnmarshalMultiWithSchema returns the
\* tree of every chunk, in the order of the chunks.
C24_SplitIsPartition ==
  (pc \in {"chunks", "returned"}) =>
    /\ \A i \in 1..Len(chunks) : chunks[i] # <<>> /\ HeaderOnlyFirst(chunks[i])
    /\ ChunkLines(chunks) = SelectSeq(InputLines, NonBlank)
    /\ (pc = "returned" /\ err = NoError) =>
         /\ Len(result.a) = Len(chunks)
         /\ \A i \in 1..Len(chunks) :
              result.a[i] = UnmarshalWithSchema(chunks[i], schema).val

\* a stream of two messages with a blank line between them
C24_Witness ==
  /\ pc = "returned" /\ err = NoError
  /\ Len(chunks) = 2 /\ Len(result.a) = 2
  /\ Len(InputLines) = 3 /\ Blank(InputLines[2])
  /\ HasPrefix(chunks[2], MSH)
  /\ result.a[1] = VMap(PID :> VMap("f" :> VInt(1)))

\* ---------------------------------- one message through both decoders (C30)
\* no blank line, and no line but the first starts with MSH
OneMessage ==
  /\ \A i \in 1..Len(InputLines) : ~Blank(InputLines[i])
  /\ \A i \in 2..Len(InputLines) : ~HasPrefix(InputLines[i], MSH)

\* the same, with the lines trimmed before they are compared with MSH
OneMessageTrimmed ==
  /\ \A i \in 1..Len(InputLines) : ~Blank(InputLines[i])
  /\ \A i \in 2..Len(InputLines) : ~HasPrefix(TrimSpace(InputLines[i]), MSH)

SameAsSingle(r) ==
  IF err = NoError THEN r.errs = {} /\ result = VSlice(<<r.val>>)
  ELSE err \in r.errs /\ result = VNil

\* C30: multi-message decode agrees with single-message decode -- on an input
\* with no blank line, at least one line and no line starting with MSH other
\* than possibly the first, UnmarshalMultiWithSchema returns the one-element
\* list of the tree UnmarshalWithSchema returns, and fails with the same error
\* exactly when UnmarshalWithSchema fails.
C30_MultiAgreesWithSingle ==
  (pc = "returned" /\ OneMessage) => SameAsSingle(UnmarshalWithSchema(data, schema))

\* the agreement on inputs where no trimmed line but the first starts with MSH
C30_AgreesWhenNoTrimmedHeader ==
  (pc = "returned" /\ OneMessageTrimmed) => SameAsSingle(UnmarshalWithSchema(data, schema))

\* an indented header line after a body line: two trees where
\* UnmarshalWithSchema returns one
C30_IndentedHeader ==
  /\ pc = "returned" /\ err = NoError /\ OneMessage
  /\ Len(InputLines) = 2 /\ InputLines[1] = PID \o <<"|", "1">>
  /\ HasPrefix(TrimSpace(InputLines[2]), MSH)
  /\ Len(result.a) = 2
  /\ UnmarshalWithSchema(data, schema).errs = {}

\* ----------------------------------------- encoding a decoded tree (C25)
\* C25: encode accepts every decoded tree -- MarshalWithSchemaOptions on a
\* tree that UnmarshalWithSchema returned without error, with the same schema,
\* returns no error.
C25_EncodeAcceptsDecoded ==
  (pc = "encoded") => merr = NoError

\* a list with a nil element among the fields of a segment mapping
NilItem(v) == v.k = "slice" /\ \E i \in 1..Len(v.a) : v.a[i] = VNil

SegmentHasNilItem(sm) == \E f \in DOMAIN sm.m : NilItem(sm.m[f])

TreeHasNilItem(t) ==
  \E n \in DOMAIN t.m :
    IF t.m[n].k = "slice" THEN \E i \in 1..Len(t.m[n].a) : SegmentHasNilItem(t.m[n].a[i])
    ELSE SegmentHasNilItem(t.m[n])

\* the encoder accepts the decoded trees that hold no nil list element
C25_AcceptsWithoutNilItems ==
  (pc = "encoded" /\ ~TreeHasNilItem(result)) => merr = NoError

\* a tree decoded from PID|^ under an array of objects, refused by the encoder
C25_Refused ==
  /\ pc = "encoded" /\ err = NoError /\ merr # NoError
  /\ data = PID \o <<"|", "^">>
  /\ TreeHasNilItem(result)

\* --------------------------------------- separators of the output (C26)
\* the records parseMessage makes of the encoder's output
OutputRecords == parseMessage(output).lines

OptionsSeparators(seg) ==
  /\ seg.fieldSeparator = opts.FieldSeparator
  /\ ComponentSeparator(seg) = opts.ComponentSeparator
  /\ RepetitionSeparator(seg) = opts.RepetitionSeparator

C26_HeaderWithoutEncoding ==
  /\ Encoded /\ MSH \in DOMAIN result.m
  /\ MaxIndex(schema[MSH].Fields) = 1
  /\ OutputRecords[1].encodingCharacters = <<>>
  /\ RepetitionSeparator(OutputRecords[1]) # opts.RepetitionSeparator

\* ------------------------------------------------------ no abort (C27)
\* the objects of a segment mapping that the encoder hands to
\* marshalObjectFromMap, each with the components of its descriptor
ObjectsOfField(v, f) ==
  IF f.Type = "object" /\ v.k = "map" THEN {<<v.m, f.Components>>}
  ELSE IF f.Type = "array" /\ v.k = "slice" /\ f.Items.Type = "object"
       THEN {<<v.a[i].m, f.Items.Components>> : i \in {j \in 1..Len(v.a) : v.a[j].k = "map"}}
       ELSE {}

ObjectsOfSegment(sm, fields) ==
  UNION {ObjectsOfField(sm.m[f], fields[f]) : f \in DOMAIN sm.m \cap DOMAIN fields}

ObjectsOfTree(t, s) ==
  UNION {IF t.m[n].k = "slice"
         THEN UNION {ObjectsOfSegment(t.m[n].a[i], s[n].Fields) : i \in 1..Len(t.m[n].a)}
         ELSE ObjectsOfSegment(t.m[n], s[n].Fields) : n \in DOMAIN t.m \cap DOMAIN s}

\* the record the loop of UnmarshalWithSchema is about to append to a list
Appending ==
  /\ pc = "loop" /\ idx <= Len(segments)
  /\ segments[idx].name \in DOMAIN schema
  /\ schema[segments[idx].name].Repeat
  /\ segments[idx].name \in DOMAIN result.m

\* C27: no runtime abort on a validated schema -- when the decoder appends to
\* the value under a repeating segment's key that value is a list, and every
\* slot marshalObjectFromMap writes for an object of the tree lies within the
\* slot array, whose length is the highest declared component position.
C27_NoAbort ==
  /\ Appending => listAsserted(result.m, segments[idx].name)
  /\ (pc \in {"done", "encoded", "redecoded"} /\ err = NoError) =>
       \A o \in ObjectsOfTree(result, schema) : slotsInRange(o[1], o[2])

\* two OBX lines have made a list of two, and a tree whose PID.f sets the
\* component at position 5 has been encoded
C27_Witness ==
  /\ pc = "encoded" /\ merr = NoError
  /\ schema[PID].Fields["f"].Type = "object"
  /\ PID \in DOMAIN result.m /\ OBX \in DOMAIN result.m
  /\ Len(result.m[OBX].a) = 2
  /\ result.m[PID] = VMap("f" :> VMap(("a" :> VStr(<<"1">>)) @@ ("e" :> VStr(<<"1">>))))
  /\ 4 \in slotsWritten(result.m[PID].m["f"].m, schema[PID].Fields["f"].Components)

\* ------------------------------------------ plain segments seen twice (C28)
\* what decodeSegmentWithSchema makes of record i
DecodedAt(i) == decodeSegmentWithSchema(segments[i], schema[segments[i].name]).val

\* the records of segment n whose decoded mapping has at least one field
FilledAt(n) ==
  {i \in 1..Len(segments) : segments[i].name = n /\ DOMAIN DecodedAt(i) # {}}

Latest(S) == CHOOSE i \in S : \A j \in S : j <= i

Decoded == pc \in {"done", "encoded", "redecoded"} /\ err = NoError

EmptyValue(v) ==
  \/ v = VNil
  \/ v.k = "string" /\ v.s = <<>>
  \/ v.k = "slice" /\ v.a = <<>>
  \/ v.k = "map" /\ DOMAIN v.m = {}

\* the record the loop is about to decode belongs to the schema, decodes
\* without error, and none of its declared fields resolves to a non-empty value
AtEmptyLine ==
  /\ pc = "loop" /\ idx <= Len(segments)
  /\ segments[idx].name \in DOMAIN schema
  /\ decodeSegmentWithSchema(segments[idx], schema[segments[idx].name]).errs = {}
  /\ \A f \in DOMAIN DecodedAt(idx) : EmptyValue(DecodedAt(idx)[f])

\* no segment-level mapping of the tree is empty and no repeating list is empty
NoEmptySegment(t) ==
  \A n \in DOMAIN t.m :
    IF t.m[n].k = "slice"
    THEN t.m[n].a # <<>> /\ \A i \in 1..Len(t.m[n].a) : DOMAIN t.m[n].a[i].m # {}
    ELSE DOMAIN t.m[n].m # {}

\* C29: empty segments leave no trace -- a line none of whose declared fields
\* resolves to a non-empty value leaves the tree as it was, and no
\* segment-level mapping and no repeating list of a decoded tree is empty.
C29_EmptyLeavesNoTrace ==
  [][/\ AtEmptyLine => result' = result
     /\ (pc' \in {"loop", "done"} /\ err' = NoError /\ result' # VNil) => NoEmptySegment(result')]_vars

\* the same for the lines whose decoded mapping has no field at all
C29_NoFieldLeavesNoTrace ==
  [][/\ (AtEmptyLine /\ DOMAIN DecodedAt(idx) = {}) => result' = result
     /\ (pc' \in {"loop", "done"} /\ err' = NoError /\ result' # VNil) => NoEmptySegment(result')]_vars

\* a line whose only field text is the repetition separator has put an empty
\* list in the tree
C29_EmptyListStored ==
  /\ Decoded
  /\ Len(segments) = 1 /\ segments[1].name = PID
  /\ result.m = (PID :> VMap("f" :> VSlice(<<>>)))

====
